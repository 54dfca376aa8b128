--------------------------- MODULE SessionResources --------------------------
(***************************************************************************)
(* The shared resources of one session (include/core/session_context.h):   *)
(* a table of named, typed resources that Nodes of concurrent layers fill  *)
(* through GetOrCreateResource.  Callers that miss join a flight, a shared *)
(* entry with a mutex of its own: the first to lock it runs its factory,   *)
(* the others wait for the mutex and share the outcome.                    *)
(*                                                                         *)
(* resource_mutex_ guards the table and the flights and is never held      *)
(* while a factory runs, so each of its critical sections is one action.   *)
(* A factory may ask for other resources; a thread has a stack of calls.   *)
(***************************************************************************)
EXTENDS Naturals, Sequences, FiniteSets

CONSTANTS
  Thread,
  Key,        \* names of resources
  Type,       \* types a SessionResourceKey may have
  Value,      \* resources a factory may make; SetResource may store
  Null,       \* the null shared_ptr
  Flights,    \* how many SingleFlightEntry objects may be alive at once
  None,       \* no entry, no flight, no holder
  Needs,      \* Needs[k]: the keys a factory of k may ask for
  Calls       \* the calls made outside any factory, as pairs of key and type

(* A SingleFlightEntry is named by a number. *)
Flight == 1 .. Flights

ASSUME ResourceAssumption ==
  /\ Flights \in Nat
  /\ None \notin Thread \cup Flight
  /\ None \notin [value : Value \cup {Null}, type : Type]
  /\ Null \notin Value
  /\ Needs \in [Key -> SUBSET Key]
  /\ Calls \in SUBSET (Key \X Type)

VARIABLES
  resources,   \* the table: an entry [value, type] or None
  flights,     \* flights_: the flight of a key, or None
  entry,       \* entry[f]: what SingleFlightEntry f holds
  holder,      \* the thread that has flight->mtx
  stack,       \* a thread's calls, the innermost last
  outcome,     \* of a thread's last call outside any factory
  replaced     \* keys SetResource has stored under (history)

vars == <<resources, flights, entry, holder, stack, outcome, replaced>>

NoOutcome == [kind |-> "none", key |-> None, value |-> Null]
NewEntry(type) == [type |-> type, done |-> FALSE, failed |-> FALSE, result |-> Null]
Kind(e) ==
  IF e.failed THEN "failure" ELSE IF e.result = Null THEN "null" ELSE "value"
Frame(k, type) ==
  [key |-> k, type |-> type, at |-> "lookup", flight |-> None, created |-> Null]

Top(t) == stack[t][Len(stack[t])]
Pop(s) == SubSeq(s, 1, Len(s) - 1)
At(t, where) == stack[t] # <<>> /\ Top(t).at = where
Frames(t) == {stack[t][i] : i \in DOMAIN stack[t]}

(* The innermost call of t moves on. *)
Move(t, frame) == stack' = [stack EXCEPT ![t] = Append(Pop(@), frame)]

(* The innermost call of t returns; a call made by a factory returns to it. *)
Return(t, kind, value) ==
  /\ stack' = [stack EXCEPT ![t] = Pop(@)]
  /\ outcome' = IF Len(stack[t]) = 1
                THEN [outcome EXCEPT ![t] =
                        [kind |-> kind, key |-> Top(t).key, value |-> value]]
                ELSE outcome

(* Entries that shared pointers of the table or of calls keep alive, and   *)
(* the name of the next one.                                               *)
InUse == {flights[k] : k \in Key}
           \cup UNION {{fr.flight : fr \in Frames(t)} : t \in Thread}

(* The entries left when the innermost call of t lets go of its flight and *)
(* the table of flights is table.                                          *)
EntriesAfter(t, table) ==
  LET f == Top(t).flight IN
  IF \/ \E k \in Key : table[k] = f
     \/ \E u \in Thread \ {t} : \E fr \in Frames(u) : fr.flight = f
  THEN entry ELSE [entry EXCEPT ![f] = None]

NewFlight == {f \in Flight \ InUse : \A g \in Flight \ InUse : f <= g}

Init ==
  /\ resources = [k \in Key |-> None]
  /\ flights = [k \in Key |-> None]
  /\ entry = [f \in Flight |-> None]
  /\ holder = [f \in Flight |-> None]
  /\ stack = [t \in Thread |-> <<>>]
  /\ outcome = [t \in Thread |-> NoOutcome]
  /\ replaced = {}

-----------------------------------------------------------------------------
(* GetOrCreateResource *)

Call(t) ==
  /\ stack[t] = <<>>
  /\ \E c \in Calls : stack' = [stack EXCEPT ![t] = <<Frame(c[1], c[2])>>]
  /\ outcome' = [outcome EXCEPT ![t] = NoOutcome]
  /\ UNCHANGED <<resources, flights, entry, holder, replaced>>

(* A running factory asks for another resource. *)
CallFromFactory(t) ==
  /\ At(t, "creating")
  /\ \E k \in Needs[Top(t).key], type \in Type :
       /\ <<k, type>> \in Calls
       /\ stack' = [stack EXCEPT ![t] = Append(@, Frame(k, type))]
  /\ UNCHANGED <<resources, flights, entry, holder, outcome, replaced>>

(* The table has the resource. *)
Hit(t) ==
  LET call == Top(t) found == resources[call.key] IN
  /\ At(t, "lookup")
  /\ found # None
  /\ IF found.type = call.type
     THEN Return(t, IF found.value = Null THEN "null" ELSE "value", found.value)
     ELSE Return(t, "type_mismatch", Null)
  /\ UNCHANGED <<resources, flights, entry, holder, replaced>>

(* It has not, and nobody is making it: the caller starts a flight. *)
StartFlight(t) ==
  LET call == Top(t) IN
  /\ At(t, "lookup")
  /\ resources[call.key] = None
  /\ flights[call.key] = None
  /\ \E f \in NewFlight :
       /\ flights' = [flights EXCEPT ![call.key] = f]
       /\ entry' = [entry EXCEPT ![f] = NewEntry(call.type)]
       /\ Move(t, [call EXCEPT !.at = "joined", !.flight = f])
  /\ UNCHANGED <<resources, holder, outcome, replaced>>

(* Somebody is making it: the caller joins, if it wants the same type. *)
JoinFlight(t) ==
  LET call == Top(t) f == flights[call.key] IN
  /\ At(t, "lookup")
  /\ resources[call.key] = None
  /\ f # None
  /\ IF entry[f].type = call.type
     THEN /\ Move(t, [call EXCEPT !.at = "joined", !.flight = f])
          /\ UNCHANGED outcome
     ELSE Return(t, "type_mismatch", Null)
  /\ UNCHANGED <<resources, flights, entry, holder, replaced>>

(* Mutant: the flight's outcome is not looked at. *)
LockFlightBlind(t) ==
  LET call == Top(t) IN
  /\ At(t, "joined")
  /\ holder[call.flight] = None
  /\ holder' = [holder EXCEPT ![call.flight] = t]
  /\ Move(t, [call EXCEPT !.at = "creating"])
  /\ UNCHANGED <<resources, flights, entry, outcome, replaced>>

(* The caller locks the flight.  If the flight is done it shares the       *)
(* outcome and unlocks at once; else its factory runs under the lock.      *)
LockFlight(t) ==
  LET call == Top(t) e == entry[call.flight] IN
  /\ At(t, "joined")
  /\ holder[call.flight] = None
  /\ IF e.done
     THEN /\ Return(t, Kind(e), e.result)
          /\ entry' = EntriesAfter(t, flights)
          /\ UNCHANGED holder
     ELSE /\ holder' = [holder EXCEPT ![call.flight] = t]
          /\ Move(t, [call EXCEPT !.at = "creating"])
          /\ UNCHANGED <<entry, outcome>>
  /\ UNCHANGED <<resources, flights, replaced>>

(* The factory returns a resource, or none, or throws. *)
FactoryReturns(t) ==
  LET call == Top(t) IN
  /\ At(t, "creating")
  /\ \/ \E v \in Value :
          /\ Move(t, [call EXCEPT !.at = "storing", !.created = v])
          /\ UNCHANGED entry
     \/ /\ Move(t, [call EXCEPT !.at = "finishing"])
        /\ UNCHANGED entry
     \/ /\ Move(t, [call EXCEPT !.at = "finishing"])
        /\ entry' = [entry EXCEPT ![call.flight].failed = TRUE]
  /\ UNCHANGED <<resources, flights, holder, outcome, replaced>>

(* Mutant: the flight is over before its resource is in the table. *)
StoreAfterErase(t) ==
  LET call == Top(t) IN
  /\ At(t, "storing")
  /\ IF flights[call.key] = call.flight
     THEN /\ flights' = [flights EXCEPT ![call.key] = None]
          /\ UNCHANGED <<resources, stack>>
     ELSE /\ resources' = [resources EXCEPT ![call.key] =
               [value |-> call.created, type |-> call.type]]
          /\ Move(t, [call EXCEPT !.at = "finishing"])
          /\ UNCHANGED flights
  /\ UNCHANGED <<entry, holder, outcome, replaced>>

(* The resource enters the table, over one that SetResource may have put   *)
(* there meanwhile; or the table cannot grow, which is a failure too.      *)
Store(t) ==
  LET call == Top(t) IN
  /\ At(t, "storing")
  /\ \/ /\ resources' = [resources EXCEPT ![call.key] =
               [value |-> call.created, type |-> call.type]]
        /\ Move(t, [call EXCEPT !.at = "finishing"])
        /\ UNCHANGED entry
     \/ /\ entry' = [entry EXCEPT ![call.flight].failed = TRUE]
        /\ Move(t, [call EXCEPT !.at = "finishing", !.created = Null])
        /\ UNCHANGED resources
  /\ UNCHANGED <<flights, holder, outcome, replaced>>

(* The outcome is set; only waiters that have the flight can see it. *)
Finish(t) ==
  LET call == Top(t) IN
  /\ At(t, "finishing")
  /\ entry' = [entry EXCEPT ![call.flight].result = call.created,
                            ![call.flight].done = TRUE]
  /\ Move(t, [call EXCEPT !.at = "erasing"])
  /\ UNCHANGED <<resources, flights, holder, outcome, replaced>>

(* Mutant: a failed flight stays in the table of flights. *)
EraseUnlessFailed(t) ==
  LET call == Top(t) e == entry[call.flight] IN
  /\ At(t, "erasing")
  /\ flights' = IF e.failed THEN flights
                ELSE [flights EXCEPT ![call.key] = None]
  /\ holder' = [holder EXCEPT ![call.flight] = None]
  /\ Return(t, Kind(e), e.result)
  /\ entry' = EntriesAfter(t, flights')
  /\ UNCHANGED <<resources, replaced>>

(* Mutant: the flight's mutex stays locked. *)
EraseStillLocked(t) ==
  LET call == Top(t) e == entry[call.flight] IN
  /\ At(t, "erasing")
  /\ flights' = [flights EXCEPT ![call.key] = None]
  /\ Return(t, Kind(e), e.result)
  /\ entry' = EntriesAfter(t, flights')
  /\ UNCHANGED <<resources, holder, replaced>>

(* The flight leaves the table, its mutex is unlocked and its maker        *)
(* returns what it shares.                                                 *)
Erase(t) ==
  LET call == Top(t) e == entry[call.flight] IN
  /\ At(t, "erasing")
  /\ flights' = [flights EXCEPT ![call.key] = None]
  /\ holder' = [holder EXCEPT ![call.flight] = None]
  /\ Return(t, Kind(e), e.result)
  /\ entry' = EntriesAfter(t, flights')
  /\ UNCHANGED <<resources, replaced>>

-----------------------------------------------------------------------------
(* SetResource *)

(* Mutant: a flight of another type is not noticed. *)
SetResourceUnchecked(t) ==
  /\ stack[t] = <<>> \/ At(t, "creating")
  /\ \E c \in Calls, v \in Value \cup {Null} :
       LET k == c[1] IN
       /\ resources[k] # None => resources[k].type = c[2]
       /\ resources' = [resources EXCEPT ![k] =
                          [value |-> v, type |-> c[2]]]
       /\ replaced' = replaced \cup {k}
  /\ UNCHANGED <<flights, entry, holder, stack, outcome>>

(* Stores a resource, also a null one and also from within a factory,      *)
(* unless the name is in use with another type; then it throws and changes *)
(* nothing.                                                                *)
SetResource(t) ==
  /\ stack[t] = <<>> \/ At(t, "creating")
  /\ \E c \in Calls, v \in Value \cup {Null} :
       LET k == c[1] IN
       /\ resources[k] # None => resources[k].type = c[2]
       /\ flights[k] # None => entry[flights[k]].type = c[2]
       /\ resources' = [resources EXCEPT ![k] =
                          [value |-> v, type |-> c[2]]]
       /\ replaced' = replaced \cup {k}
  /\ UNCHANGED <<flights, entry, holder, stack, outcome>>

-----------------------------------------------------------------------------
(* A call goes on; whether its factory makes a nested call is its choice.  *)
Proceed(t) ==
  \/ Hit(t)
  \/ StartFlight(t)
  \/ JoinFlight(t)
  \/ LockFlight(t)
  \/ FactoryReturns(t)
  \/ Store(t)
  \/ Finish(t)
  \/ Erase(t)

Next ==
  \E t \in Thread :
    \/ Call(t)
    \/ CallFromFactory(t)
    \/ Proceed(t)
    \/ SetResource(t)

Spec == Init /\ [][Next]_vars

(* Threads are scheduled; a factory that may ask for other resources ends  *)
(* its work after finitely many nested calls.  Of the innermost factory,   *)
(* whose key needs no other, Proceed says that already.                    *)
FairSpec ==
  /\ Spec
  /\ \A t \in Thread :
       /\ WF_vars(Proceed(t))
       /\ \A depth \in 1 .. Cardinality(Key) - 1 :
            SF_vars(Len(stack[t]) = depth /\ FactoryReturns(t))
-----------------------------------------------------------------------------
(* Properties *)

Place == {"lookup", "joined", "creating", "storing", "finishing", "erasing"}
Making == {"creating", "storing", "finishing", "erasing"}

FrameType ==
  [key : Key, type : Type, at : Place, flight : Flight \cup {None},
   created : Value \cup {Null}]

(* Every variable has its type, and a caller past the lookup has a flight. *)
TypeOK ==
  /\ resources \in [Key -> [value : Value \cup {Null}, type : Type] \cup {None}]
  /\ flights \in [Key -> Flight \cup {None}]
  /\ entry \in [Flight -> [type : Type, done : BOOLEAN, failed : BOOLEAN,
                           result : Value \cup {Null}] \cup {None}]
  /\ holder \in [Flight -> Thread \cup {None}]
  /\ stack \in [Thread -> Seq(FrameType)]
  /\ \A t \in Thread : \A fr \in Frames(t) :
       (fr.at = "lookup") <=> (fr.flight = None)
  /\ outcome \in [Thread -> [kind : {"none", "value", "null", "failure",
                                     "type_mismatch"},
                             key : Key \cup {None}, value : Value \cup {Null}]]
  /\ replaced \in SUBSET Key

(* No two factories of one resource run at once, in whatever order callers *)
(* look up, lock and erase flights: expensive inference is done once.      *)
OneFactoryPerKey ==
  \A t, u \in Thread : \A x \in Frames(t), y \in Frames(u) :
    x.key = y.key /\ x.at \in Making /\ y.at \in Making => t = u

(* Whoever got a resource from GetOrCreateResource got the one everybody   *)
(* else gets: what was returned stays in the table until SetResource       *)
(* replaces it.                                                            *)
ReturnedIsShared ==
  \A t \in Thread :
    LET got == outcome[t] IN
    got.kind = "value" /\ got.key \notin replaced =>
      resources[got.key] # None /\ resources[got.key].value = got.value

(* The table, the flight of a name and the factories that run for it agree *)
(* on the type, so a static_pointer_cast never casts to a foreign type:    *)
(* SetResource and GetOrCreateResource with different types cannot both    *)
(* be accepted for one name.                                               *)
TypesAgree ==
  \A k \in Key :
    /\ resources[k] # None /\ flights[k] # None =>
         resources[k].type = entry[flights[k]].type
    /\ \A t \in Thread : \A fr \in Frames(t) :
         fr.key = k /\ fr.at # "lookup" =>
           /\ entry[fr.flight].type = fr.type
           /\ fr.at \in Making /\ resources[k] # None =>
                resources[k].type = fr.type

(* A failed or empty attempt is shared with its waiters and then           *)
(* forgotten: the flight a new caller finds is not a finished one for      *)
(* ever, so a later call tries again.                                      *)
FailureIsNotCached ==
  \A k \in Key :
    (flights[k] # None /\ entry[flights[k]].done) ~>
      (flights[k] = None \/ ~entry[flights[k]].done)

(* Every call returns, also through factories that ask for resources       *)
(* others are making, as long as Needs has no cycle.                       *)
CallReturns == \A t \in Thread : stack[t] # <<>> ~> stack[t] = <<>>
=============================================================================
