----------------------- MODULE SessionResourcesProofs -------------------------
(***************************************************************************)
(* Machine-checked proofs about SessionResources, for any threads, keys,   *)
(* types and resources, and factories that ask for any other resources.    *)
(***************************************************************************)
EXTENDS SessionResources, SequenceTheorems, TLAPS

-----------------------------------------------------------------------------
(* The inductive invariant *)

OutcomeType ==
  [kind : {"none", "value", "null", "failure", "type_mismatch"},
   key : Key \cup {None}, value : Value \cup {Null}]

EntryType == [type : Type, done : BOOLEAN, failed : BOOLEAN, result : Value \cup {Null}]

(* Flight f is a flight of key k: the table of flights says so, or a call. *)
IsOf(f, k) ==
  \/ flights[k] = f
  \/ \E t \in Thread : \E i \in DOMAIN stack[t] : stack[t][i].flight = f /\ stack[t][i].key = k

(* What t returned, and what a flight of k shares, is in the table.        *)
InTable(k, value) ==
  \/ k \in replaced
  \/ resources[k] # None /\ resources[k].value = value

Unstored(k) == k \in replaced \/ resources[k] = None

(* Only the innermost call of a thread moves; the others run factories.    *)
CallsNest ==
  \A t \in Thread : \A i \in DOMAIN stack[t] :
    i # Len(stack[t]) => stack[t][i].at = "creating"

(* A flight somebody has is one key's, and the current one until it is     *)
(* done.                                                                   *)
FlightsBelong ==
  \A f \in Flight, k \in Key : IsOf(f, k) =>
    /\ entry[f] \in EntryType
    /\ ~entry[f].done => flights[k] = f
    /\ \A l \in Key : IsOf(f, l) => l = k

(* A call that runs the factory, or ends its work, has its flight locked,  *)
(* alone, and the flight is the current one and not done.                  *)
MakersAreAlone ==
  \A t \in Thread : \A i \in DOMAIN stack[t] :
    stack[t][i].at \in Making =>
      /\ flights[stack[t][i].key] = stack[t][i].flight
      /\ holder[stack[t][i].flight] = t
      /\ entry[stack[t][i].flight].done <=> stack[t][i].at = "erasing"
      /\ \A j \in DOMAIN stack[t] :
           stack[t][j].at \in Making /\ stack[t][j].flight = stack[t][i].flight => i = j

(* Table, flights and calls agree on types. *)
TypesMatch ==
  /\ \A k \in Key : resources[k] # None /\ flights[k] # None =>
       resources[k].type = entry[flights[k]].type
  /\ \A t \in Thread : \A i \in DOMAIN stack[t] :
       stack[t][i].at # "lookup" => entry[stack[t][i].flight].type = stack[t][i].type

(* Nothing is stored under a key before its factory has returned.          *)
NothingStoredYet ==
  /\ \A f \in Flight, k \in Key :
       IsOf(f, k) /\ ~entry[f].done /\ holder[f] = None => Unstored(k)
  /\ \A t \in Thread : \A i \in DOMAIN stack[t] :
       stack[t][i].at \in {"creating", "storing"} => Unstored(stack[t][i].key)

(* What a flight will share, shares or has shared is in the table.         *)
SharedIsStored ==
  /\ \A t \in Thread : \A i \in DOMAIN stack[t] :
       /\ stack[t][i].at = "storing" => stack[t][i].created # Null
       /\ stack[t][i].at \in {"lookup", "joined", "creating"} => stack[t][i].created = Null
       /\ stack[t][i].at = "finishing" /\ stack[t][i].created # Null =>
            InTable(stack[t][i].key, stack[t][i].created)
  /\ \A f \in Flight, k \in Key :
       IsOf(f, k) /\ entry[f].done /\ entry[f].result # Null =>
         InTable(k, entry[f].result)
  /\ \A t \in Thread : outcome[t].kind = "value" =>
       outcome[t].key \in Key /\ InTable(outcome[t].key, outcome[t].value)

IInv ==
  /\ TypeOK
  /\ CallsNest
  /\ FlightsBelong
  /\ MakersAreAlone
  /\ TypesMatch
  /\ NothingStoredYet
  /\ SharedIsStored

-----------------------------------------------------------------------------
(* Stacks of calls *)

LEMMA CallIsFrame ==
  ASSUME TypeOK, NEW t \in Thread, stack[t] # <<>>
  PROVE  /\ Len(stack[t]) \in DOMAIN stack[t]
         /\ Top(t) = stack[t][Len(stack[t])]
         /\ Top(t) \in FrameType
         /\ Top(t).at = "lookup" <=> Top(t).flight = None
<1>1. stack[t] \in Seq(FrameType)
  BY DEF TypeOK
<1>2. Len(stack[t]) \in Nat \ {0} /\ DOMAIN stack[t] = 1 .. Len(stack[t])
  BY <1>1, LenProperties, EmptySeq
<1>3. Len(stack[t]) \in DOMAIN stack[t]
  BY <1>2
<1>4. Top(t) \in FrameType
  BY <1>1, <1>2, ElementOfSeq DEF Top
<1>5. Top(t) \in Frames(t)
  BY <1>3 DEF Top, Frames
<1> QED BY <1>3, <1>4, <1>5 DEF Top, TypeOK

LEMMA FrameFacts ==
  ASSUME TypeOK, NEW t \in Thread, NEW i \in DOMAIN stack[t]
  PROVE  /\ stack[t][i] \in FrameType
         /\ stack[t][i].at = "lookup" <=> stack[t][i].flight = None
         /\ stack[t][i].key \in Key
         /\ stack[t][i].flight # None => /\ stack[t][i].flight \in Flight
                                          /\ IsOf(stack[t][i].flight, stack[t][i].key)
<1>1. stack[t] \in Seq(FrameType)
  BY DEF TypeOK
<1>2. stack[t][i] \in FrameType
  BY <1>1, ElementOfSeq, LenProperties
<1>3. stack[t][i] \in Frames(t)
  BY DEF Frames
<1> QED BY <1>2, <1>3 DEF TypeOK, FrameType, IsOf

LEMMA StackPush ==
  ASSUME TypeOK, NEW t \in Thread, NEW fr \in FrameType,
         stack' = [stack EXCEPT ![t] = Append(@, fr)]
  PROVE  /\ stack' \in [Thread -> Seq(FrameType)]
         /\ \A u \in Thread \ {t} : stack'[u] = stack[u]
         /\ Len(stack'[t]) \notin DOMAIN stack[t]
         /\ DOMAIN stack'[t] = DOMAIN stack[t] \cup {Len(stack'[t])}
         /\ \A i \in DOMAIN stack[t] : stack'[t][i] = stack[t][i]
         /\ stack'[t][Len(stack'[t])] = fr
<1>1. stack \in [Thread -> Seq(FrameType)] /\ stack[t] \in Seq(FrameType)
  BY DEF TypeOK
<1>2. stack'[t] = Append(stack[t], fr)
  BY <1>1
<1>3. stack'[t] \in Seq(FrameType) /\ Len(stack'[t]) = Len(stack[t]) + 1
  BY <1>1, <1>2, AppendProperties
<1>4. \A i \in 1 .. Len(stack[t]) : stack'[t][i] = stack[t][i]
  BY <1>1, <1>2, AppendProperties
<1>5. stack'[t][Len(stack[t]) + 1] = fr
  BY <1>1, <1>2, AppendProperties
<1>6. /\ Len(stack[t]) \in Nat /\ DOMAIN stack[t] = 1 .. Len(stack[t])
      /\ DOMAIN stack'[t] = 1 .. Len(stack[t]) + 1
  BY <1>1, <1>3, LenProperties
<1>7. /\ Len(stack[t]) + 1 \notin 1 .. Len(stack[t])
      /\ 1 .. Len(stack[t]) + 1 = (1 .. Len(stack[t])) \cup {Len(stack[t]) + 1}
  BY <1>6
<1>8. stack' \in [Thread -> Seq(FrameType)] /\ \A u \in Thread \ {t} : stack'[u] = stack[u]
  BY <1>1, <1>2, <1>3
<1> QED BY <1>3, <1>4, <1>5, <1>6, <1>7, <1>8

LEMMA PopFacts ==
  ASSUME TypeOK, NEW t \in Thread, stack[t] # <<>>
  PROVE  LET n == Len(stack[t]) IN
         /\ Pop(stack[t]) \in Seq(FrameType)
         /\ n \in Nat \ {0}
         /\ Len(Pop(stack[t])) = n - 1
         /\ DOMAIN stack[t] = 1 .. n
         /\ \A i \in 1 .. n - 1 : Pop(stack[t])[i] = stack[t][i]
<1> DEFINE n == Len(stack[t])
<1>1. stack[t] \in Seq(FrameType)
  BY DEF TypeOK
<1>2. n \in Nat \ {0} /\ DOMAIN stack[t] = 1 .. n
  BY <1>1, LenProperties, EmptySeq
<1>3. 1 \in 1 .. n + 1 /\ n - 1 \in 1 - 1 .. n
  BY <1>2
<1>4. /\ Pop(stack[t]) \in Seq(FrameType)
      /\ Len(Pop(stack[t])) = n - 1
      /\ \A i \in 1 .. n - 1 : Pop(stack[t])[i] = stack[t][i]
  <2>1. \A i \in 1 .. n - 1 : stack[t][i] \in FrameType
    BY <1>1, <1>2, ElementOfSeq
  <2>2. Pop(stack[t]) = [i \in 1 .. n - 1 |-> stack[t][i]]
    BY <1>2 DEF Pop
  <2>3. n - 1 \in Nat
    BY <1>2
  <2> QED BY <2>1, <2>2, <2>3
<1> QED BY <1>2, <1>4

LEMMA StackPop ==
  ASSUME TypeOK, NEW t \in Thread, stack[t] # <<>>,
         stack' = [stack EXCEPT ![t] = Pop(@)]
  PROVE  /\ stack' \in [Thread -> Seq(FrameType)]
         /\ \A u \in Thread \ {t} : stack'[u] = stack[u]
         /\ DOMAIN stack'[t] = DOMAIN stack[t] \ {Len(stack[t])}
         /\ \A i \in DOMAIN stack'[t] : stack'[t][i] = stack[t][i]
<1>1. stack \in [Thread -> Seq(FrameType)] /\ stack'[t] = Pop(stack[t])
  BY DEF TypeOK
<1>2. stack' \in [Thread -> Seq(FrameType)] /\ \A u \in Thread \ {t} : stack'[u] = stack[u]
  BY <1>1, PopFacts
<1>3. /\ DOMAIN stack'[t] = 1 .. Len(stack[t]) - 1
      /\ DOMAIN stack[t] = 1 .. Len(stack[t]) /\ Len(stack[t]) \in Nat
      /\ \A i \in 1 .. Len(stack[t]) - 1 : stack'[t][i] = stack[t][i]
  BY <1>1, PopFacts, LenProperties
<1> QED BY <1>2, <1>3

LEMMA StackMove ==
  ASSUME TypeOK, NEW t \in Thread, stack[t] # <<>>, NEW fr \in FrameType, Move(t, fr)
  PROVE  /\ stack' \in [Thread -> Seq(FrameType)]
         /\ \A u \in Thread \ {t} : stack'[u] = stack[u]
         /\ DOMAIN stack'[t] = DOMAIN stack[t]
         /\ Len(stack'[t]) = Len(stack[t])
         /\ \A i \in DOMAIN stack[t] :
              stack'[t][i] = IF i = Len(stack[t]) THEN fr ELSE stack[t][i]
<1> DEFINE n == Len(stack[t])
           s == Pop(stack[t])
<1>1. stack \in [Thread -> Seq(FrameType)] /\ stack'[t] = Append(s, fr)
  BY DEF TypeOK, Move
<1>2. /\ s \in Seq(FrameType) /\ n \in Nat \ {0} /\ Len(s) = n - 1 /\ DOMAIN stack[t] = 1 .. n
      /\ \A i \in 1 .. n - 1 : s[i] = stack[t][i]
  BY PopFacts
<1> HIDE DEF s
<1>3. /\ stack'[t] \in Seq(FrameType)
      /\ Len(stack'[t]) = Len(s) + 1
      /\ \A i \in 1 .. Len(s) : stack'[t][i] = s[i]
      /\ stack'[t][Len(s) + 1] = fr
  BY <1>1, <1>2, AppendProperties
<1>4. Len(stack'[t]) = n /\ Len(s) + 1 = n
  BY <1>2, <1>3
<1>5. DOMAIN stack'[t] = 1 .. n
  BY <1>3, <1>4, LenProperties
<1>6. \A i \in 1 .. n : stack'[t][i] = IF i = n THEN fr ELSE stack[t][i]
  <2>1. \A i \in 1 .. n : i = n \/ i \in 1 .. n - 1
    BY <1>2
  <2> QED BY <1>2, <1>3, <1>4, <2>1
<1>7. stack' \in [Thread -> Seq(FrameType)] /\ \A u \in Thread \ {t} : stack'[u] = stack[u]
  BY <1>1, <1>3 DEF Move
<1> QED BY <1>2, <1>4, <1>5, <1>6, <1>7

-----------------------------------------------------------------------------
(* Each step keeps the invariant *)

LEMMA FramesAreTyped ==
  ASSUME \A t \in Thread : \A i \in DOMAIN stack[t] :
           stack[t][i].at = "lookup" <=> stack[t][i].flight = None
  PROVE  \A t \in Thread : \A fr \in Frames(t) : (fr.at = "lookup") <=> (fr.flight = None)
BY DEF Frames

(* A new call: nothing is said of it but that it is at its lookup. *)
LEMMA PushKeeps ==
  ASSUME IInv, NEW t \in Thread, NEW k \in Key, NEW type \in Type,
         stack[t] # <<>> => Top(t).at = "creating",
         stack' = [stack EXCEPT ![t] = Append(@, Frame(k, type))],
         \/ outcome' = outcome
         \/ outcome' = [outcome EXCEPT ![t] = NoOutcome],
         UNCHANGED <<resources, flights, entry, holder, replaced>>
  PROVE  IInv'
<1> DEFINE fr == Frame(k, type)
           new == Len(stack'[t])
<1>1. fr \in FrameType /\ fr.at = "lookup" /\ fr.flight = None /\ fr.created = Null
  BY DEF Frame, FrameType, Place
<1>2. /\ stack' \in [Thread -> Seq(FrameType)]
      /\ \A u \in Thread \ {t} : stack'[u] = stack[u]
      /\ new \notin DOMAIN stack[t]
      /\ DOMAIN stack'[t] = DOMAIN stack[t] \cup {new}
      /\ \A i \in DOMAIN stack[t] : stack'[t][i] = stack[t][i]
      /\ stack'[t][new] = fr
  BY <1>1, StackPush DEF IInv
<1> HIDE DEF fr, new
<1>3. ASSUME NEW u \in Thread, NEW i \in DOMAIN stack'[u]
      PROVE  \/ i \in DOMAIN stack[u] /\ stack'[u][i] = stack[u][i]
             \/ stack'[u][i] = fr
  BY <1>2
<1>4. \A u \in Thread : \A i \in DOMAIN stack[u] :
        i \in DOMAIN stack'[u] /\ stack'[u][i] = stack[u][i]
  BY <1>2
<1>5. \A f \in Flight, l \in Key : IsOf(f, l)' <=> IsOf(f, l)
  <2>1. None \notin Flight
    BY ResourceAssumption
  <2> QED BY <1>1, <1>3, <1>4, <2>1 DEF IsOf
<1>6. TypeOK'
  <2>1. \A u \in Thread : \A i \in DOMAIN stack'[u] :
          stack'[u][i].at = "lookup" <=> stack'[u][i].flight = None
    BY <1>1, <1>3, FrameFacts DEF IInv
  <2>2. (\A u \in Thread : \A x \in Frames(u) : (x.at = "lookup") <=> (x.flight = None))'
    BY <2>1 DEF Frames
  <2>3. NoOutcome \in OutcomeType
    BY DEF NoOutcome, OutcomeType
  <2>4. outcome \in [Thread -> OutcomeType]
    BY DEF IInv, TypeOK, OutcomeType
  <2>5. outcome' \in [Thread -> OutcomeType]
    BY <2>3, <2>4
  <2> QED BY <1>2, <2>2, <2>5 DEF IInv, TypeOK, OutcomeType
<1>7. CallsNest'
  <2> SUFFICES ASSUME NEW u \in Thread, NEW i \in DOMAIN stack'[u], i # Len(stack'[u])
               PROVE  stack'[u][i].at = "creating"
    BY DEF CallsNest
  <2>1. CASE u # t
    BY <1>2, <2>1 DEF IInv, CallsNest
  <2>2. CASE u = t
    <3>1. i \in DOMAIN stack[t] /\ stack'[t][i] = stack[t][i]
      BY <1>2, <2>2 DEF new
    <3>2. stack[t] # <<>>
      BY <3>1
    <3>3. i = Len(stack[t]) => stack[t][i].at = "creating"
      BY <3>2 DEF Top
    <3> QED BY <2>2, <3>1, <3>3 DEF IInv, CallsNest
  <2> QED BY <2>1, <2>2
<1>8. FlightsBelong'
  BY <1>5 DEF IInv, FlightsBelong
<1>9. MakersAreAlone'
  BY <1>1, <1>3 DEF IInv, MakersAreAlone, Making
<1>10. TypesMatch'
  BY <1>1, <1>3 DEF IInv, TypesMatch
<1>11. NothingStoredYet'
  BY <1>1, <1>3, <1>5 DEF IInv, NothingStoredYet, Unstored
<1>12. SharedIsStored'
  <2>1. \A u \in Thread : outcome'[u].kind = "value" => outcome'[u] = outcome[u]
    BY DEF IInv, TypeOK, NoOutcome
  <2> QED BY <1>1, <1>3, <1>5, <2>1 DEF IInv, SharedIsStored, InTable
<1> QED BY <1>6, <1>7, <1>8, <1>9, <1>10, <1>11, <1>12 DEF IInv

(* A call that has a kind and a value to return, returns.  *)
LEMMA OutcomeIsTyped ==
  ASSUME TypeOK, NEW t \in Thread, stack[t] # <<>>,
         NEW kind \in {"none", "value", "null", "failure", "type_mismatch"},
         NEW value \in Value \cup {Null},
         Return(t, kind, value)
  PROVE  /\ outcome' \in [Thread -> OutcomeType]
         /\ \A u \in Thread :
              \/ outcome'[u] = outcome[u]
              \/ outcome'[u] = [kind |-> kind, key |-> Top(t).key, value |-> value]
<1>1. Top(t).key \in Key
  BY CallIsFrame DEF FrameType
<1>2. [kind |-> kind, key |-> Top(t).key, value |-> value] \in OutcomeType
  BY <1>1 DEF OutcomeType
<1>3. outcome \in [Thread -> OutcomeType]
  BY DEF TypeOK, OutcomeType
<1> QED BY <1>2, <1>3 DEF Return

(* A call returns from its lookup. *)
LEMMA LookupReturns ==
  ASSUME IInv, NEW t \in Thread, At(t, "lookup"),
         NEW kind \in {"value", "null", "type_mismatch"}, NEW value \in Value \cup {Null},
         Return(t, kind, value),
         kind = "value" => InTable(Top(t).key, value),
         UNCHANGED <<resources, flights, entry, holder, replaced>>
  PROVE  IInv'
<1> DEFINE n == Len(stack[t])
<1>1. stack[t] # <<>> /\ stack[t][n].at = "lookup" /\ Top(t).key \in Key
  BY CallIsFrame DEF At, Top, IInv, FrameType
<1>2. /\ stack' \in [Thread -> Seq(FrameType)]
      /\ \A u \in Thread \ {t} : stack'[u] = stack[u]
      /\ DOMAIN stack'[t] = DOMAIN stack[t] \ {n}
      /\ \A i \in DOMAIN stack'[t] : stack'[t][i] = stack[t][i]
  BY <1>1, StackPop DEF IInv, Return
<1>3. \A u \in Thread : \A i \in DOMAIN stack'[u] :
        i \in DOMAIN stack[u] /\ stack'[u][i] = stack[u][i]
  BY <1>2
<1>4. \A u \in Thread : \A i \in DOMAIN stack[u] : stack[u][i].at # "lookup" =>
        i \in DOMAIN stack'[u] /\ stack'[u][i] = stack[u][i]
  BY <1>1, <1>2
<1>5. \A f \in Flight, l \in Key : IsOf(f, l)' <=> IsOf(f, l)
  <2>1. None \notin Flight
    BY ResourceAssumption
  <2>2. \A u \in Thread : \A i \in DOMAIN stack[u] :
          stack[u][i].flight \in Flight => stack[u][i].at # "lookup"
    BY <2>1, FrameFacts DEF IInv
  <2> QED BY <1>3, <1>4, <2>2 DEF IsOf
<1>6. TypeOK'
  <2>1. \A u \in Thread : \A i \in DOMAIN stack'[u] :
          stack'[u][i].at = "lookup" <=> stack'[u][i].flight = None
    BY <1>3, FrameFacts DEF IInv
  <2>2. (\A u \in Thread : \A x \in Frames(u) : (x.at = "lookup") <=> (x.flight = None))'
    BY <2>1 DEF Frames
  <2>3. outcome' \in [Thread -> OutcomeType]
    BY <1>1, OutcomeIsTyped DEF IInv
  <2> QED BY <1>2, <2>2, <2>3 DEF IInv, TypeOK, OutcomeType
<1>7. CallsNest'
  <2>1. \A i \in DOMAIN stack'[t] : stack'[t][i].at = "creating"
    BY <1>2 DEF IInv, CallsNest
  <2> QED BY <1>2, <2>1 DEF IInv, CallsNest
<1>8. FlightsBelong'
  BY <1>5 DEF IInv, FlightsBelong
<1>9. MakersAreAlone'
  BY <1>3 DEF IInv, MakersAreAlone, Making
<1>10. TypesMatch'
  BY <1>3 DEF IInv, TypesMatch
<1>11. NothingStoredYet'
  BY <1>3, <1>5 DEF IInv, NothingStoredYet, Unstored
<1>12. SharedIsStored'
  <2>1. \A u \in Thread : \/ outcome'[u] = outcome[u]
                          \/ outcome'[u] = [kind |-> kind, key |-> Top(t).key, value |-> value]
    BY <1>1, OutcomeIsTyped DEF IInv
  <2>2. \A l, v : InTable(l, v)' <=> InTable(l, v)
    BY DEF InTable
  <2> QED BY <1>1, <1>3, <1>5, <2>1, <2>2 DEF IInv, SharedIsStored
<1> QED BY <1>6, <1>7, <1>8, <1>9, <1>10, <1>11, <1>12 DEF IInv

(* What every move of the innermost call of t leaves as it is. *)
LEMMA MoveKeepsOthers ==
  ASSUME IInv, NEW t \in Thread, stack[t] # <<>>, NEW fr \in FrameType, Move(t, fr),
         fr.at = "lookup" <=> fr.flight = None
  PROVE  /\ CallsNest'
         /\ (\A u \in Thread : \A x \in Frames(u) : (x.at = "lookup") <=> (x.flight = None))'
         /\ stack' \in [Thread -> Seq(FrameType)]
<1>1. /\ stack' \in [Thread -> Seq(FrameType)]
      /\ \A u \in Thread \ {t} : stack'[u] = stack[u]
      /\ DOMAIN stack'[t] = DOMAIN stack[t]
      /\ Len(stack'[t]) = Len(stack[t])
      /\ \A i \in DOMAIN stack[t] :
           stack'[t][i] = IF i = Len(stack[t]) THEN fr ELSE stack[t][i]
  BY StackMove DEF IInv
<1>2. CallsNest'
  BY <1>1 DEF IInv, CallsNest
<1>3. ASSUME NEW u \in Thread, NEW i \in DOMAIN stack'[u]
      PROVE  stack'[u][i].at = "lookup" <=> stack'[u][i].flight = None
  <2>1. CASE stack'[u][i] = fr
    BY <2>1
  <2>2. CASE i \in DOMAIN stack[u] /\ stack'[u][i] = stack[u][i]
    BY <2>2, FrameFacts DEF IInv
  <2> QED BY <1>1, <2>1, <2>2
<1>4. (\A u \in Thread : \A x \in Frames(u) : (x.at = "lookup") <=> (x.flight = None))'
  BY <1>3 DEF Frames
<1> QED BY <1>1, <1>2, <1>4

(* The first call to miss starts a flight nobody has. *)
LEMMA StartFlightKeeps ==
  ASSUME IInv, NEW t \in Thread, StartFlight(t)
  PROVE  IInv'
<1> DEFINE n == Len(stack[t])
           k == Top(t).key
<1>1. PICK f \in NewFlight :
        /\ flights' = [flights EXCEPT ![k] = f]
        /\ entry' = [entry EXCEPT ![f] = NewEntry(Top(t).type)]
        /\ Move(t, [Top(t) EXCEPT !.at = "joined", !.flight = f])
  BY DEF StartFlight
<1> DEFINE fr == [Top(t) EXCEPT !.at = "joined", !.flight = f]
<1>2. /\ stack[t] # <<>> /\ n \in DOMAIN stack[t] /\ Top(t) = stack[t][n]
      /\ Top(t) \in FrameType /\ Top(t).at = "lookup" /\ Top(t).flight = None
  BY CallIsFrame DEF StartFlight, At, IInv
<1>3. f \in Flight /\ f # None
  BY ResourceAssumption DEF NewFlight
<1>4. /\ fr \in FrameType /\ fr.at = "joined" /\ fr.flight = f /\ fr.key = k
      /\ fr.type = Top(t).type /\ fr.created = Top(t).created /\ k \in Key
  BY <1>2, <1>3 DEF FrameType, Place
<1>5. /\ \A l \in Key : flights[l] # f
      /\ \A u \in Thread : \A i \in DOMAIN stack[u] : stack[u][i].flight # f
  BY DEF NewFlight, InUse, Frames
<1>6. /\ \A u \in Thread \ {t} : stack'[u] = stack[u]
      /\ DOMAIN stack'[t] = DOMAIN stack[t]
      /\ \A i \in DOMAIN stack[t] : stack'[t][i] = IF i = n THEN fr ELSE stack[t][i]
  BY <1>1, <1>2, <1>4, StackMove DEF IInv
<1>7. /\ CallsNest' /\ stack' \in [Thread -> Seq(FrameType)]
      /\ (\A u \in Thread : \A x \in Frames(u) : (x.at = "lookup") <=> (x.flight = None))'
  BY <1>1, <1>2, <1>3, <1>4, MoveKeepsOthers
<1>8. /\ resources[k] = None /\ flights[k] = None
      /\ UNCHANGED <<resources, holder, outcome, replaced>>
  BY DEF StartFlight
<1>9. /\ \A l \in Key : flights'[l] = IF l = k THEN f ELSE flights[l]
      /\ \A g \in Flight : entry'[g] = IF g = f THEN NewEntry(Top(t).type) ELSE entry[g]
  BY <1>1 DEF IInv, TypeOK
<1> HIDE DEF fr, n, k
<1>10. ASSUME NEW u \in Thread, NEW i \in DOMAIN stack'[u]
       PROVE  /\ i \in DOMAIN stack[u]
              /\ \/ stack'[u][i] = stack[u][i] /\ stack[u][i].flight # f
                 \/ stack'[u][i] = fr
  BY <1>5, <1>6
<1>11. \A g \in Flight \ {f}, l \in Key : IsOf(g, l)' <=> IsOf(g, l)
  <2>1. None \notin Flight
    BY ResourceAssumption
  <2>2. \A u \in Thread : \A i \in DOMAIN stack[u] :
          stack[u][i].flight \in Flight =>
            i \in DOMAIN stack'[u] /\ stack'[u][i] = stack[u][i]
    BY <1>2, <1>6, <2>1
  <2> QED BY <1>4, <1>8, <1>9, <1>10, <2>1, <2>2 DEF IsOf
<1>12. \A l \in Key : IsOf(f, l)' <=> l = k
  BY <1>4, <1>5, <1>9, <1>10 DEF IsOf
<1>13. NewEntry(Top(t).type) \in EntryType /\ ~NewEntry(Top(t).type).done
       /\ NewEntry(Top(t).type).type = Top(t).type
  BY <1>2 DEF NewEntry, EntryType, FrameType
<1>14. TypeOK'
  <2>1. flights' \in [Key -> Flight \cup {None}]
    BY <1>1, <1>3 DEF IInv, TypeOK
  <2>2. entry' \in [Flight -> EntryType \cup {None}]
    BY <1>1, <1>13 DEF IInv, TypeOK, EntryType
  <2> QED BY <1>7, <1>8, <2>1, <2>2 DEF IInv, TypeOK, EntryType
<1>15. FlightsBelong'
  <2> SUFFICES ASSUME NEW g \in Flight, NEW l \in Key, IsOf(g, l)'
               PROVE  /\ entry'[g] \in EntryType
                      /\ ~entry'[g].done => flights'[l] = g
                      /\ \A m \in Key : IsOf(g, m)' => m = l
    BY DEF FlightsBelong
  <2>1. CASE g = f
    BY <1>9, <1>12, <1>13, <2>1
  <2>2. CASE g # f
    <3>1. IsOf(g, l) /\ entry'[g] = entry[g] /\ \A m \in Key : IsOf(g, m)' <=> IsOf(g, m)
      BY <1>9, <1>11, <2>2
    <3>2. flights[l] = g => l # k
      BY <1>8, ResourceAssumption
    <3> QED BY <1>9, <3>1, <3>2 DEF IInv, FlightsBelong
  <2> QED BY <2>1, <2>2
<1>16. MakersAreAlone'
  <2> SUFFICES ASSUME NEW u \in Thread, NEW i \in DOMAIN stack'[u], stack'[u][i].at \in Making
               PROVE  /\ flights'[stack'[u][i].key] = stack'[u][i].flight
                      /\ holder'[stack'[u][i].flight] = u
                      /\ entry'[stack'[u][i].flight].done <=> stack'[u][i].at = "erasing"
                      /\ \A j \in DOMAIN stack'[u] :
                           stack'[u][j].at \in Making /\ stack'[u][j].flight = stack'[u][i].flight
                             => i = j
    BY DEF MakersAreAlone
  <2>1. i \in DOMAIN stack[u] /\ stack'[u][i] = stack[u][i] /\ stack[u][i].flight # f
    BY <1>4, <1>10 DEF Making
  <2>2. /\ stack[u][i].flight \in Flight /\ stack[u][i].flight # None
        /\ stack[u][i].key \in Key
    BY <2>1, FrameFacts DEF IInv, Making, FrameType
  <2>3. flights[stack[u][i].key] = stack[u][i].flight
    BY <2>1 DEF IInv, MakersAreAlone
  <2>4. \A j \in DOMAIN stack'[u] : stack'[u][j].at \in Making =>
          j \in DOMAIN stack[u] /\ stack'[u][j] = stack[u][j]
    BY <1>4, <1>10 DEF Making
  <2> QED BY <1>8, <1>9, <2>1, <2>2, <2>3, <2>4 DEF IInv, MakersAreAlone
<1>17. TypesMatch'
  <2>1. \A l \in Key : resources'[l] # None /\ flights'[l] # None =>
          resources'[l].type = entry'[flights'[l]].type
    <3>1. \A l \in Key \ {k} : flights'[l] = flights[l] /\ flights[l] # f
                               /\ flights[l] \in Flight \cup {None}
      BY <1>5, <1>9 DEF IInv, TypeOK
    <3> QED BY <1>8, <1>9, <3>1 DEF IInv, TypesMatch
  <2>2. ASSUME NEW u \in Thread, NEW i \in DOMAIN stack'[u], stack'[u][i].at # "lookup"
        PROVE  entry'[stack'[u][i].flight].type = stack'[u][i].type
    <3>1. CASE stack'[u][i] = fr
      BY <1>3, <1>4, <1>9, <1>13, <3>1
    <3>2. CASE stack'[u][i] # fr
      <4>1. /\ i \in DOMAIN stack[u] /\ stack'[u][i] = stack[u][i] /\ stack[u][i].flight # f
        BY <1>10, <3>2
      <4>2. stack[u][i].flight \in Flight
        BY <2>2, <4>1, FrameFacts DEF IInv, FrameType
      <4> QED BY <1>9, <2>2, <4>1, <4>2 DEF IInv, TypesMatch
    <3> QED BY <3>1, <3>2
  <2> QED BY <2>1, <2>2 DEF TypesMatch
<1>18. NothingStoredYet'
  <2>1. \A l : Unstored(l)' <=> Unstored(l)
    BY <1>8 DEF Unstored
  <2>2. ASSUME NEW g \in Flight, NEW l \in Key,
               IsOf(g, l)', ~entry'[g].done, holder'[g] = None
        PROVE  Unstored(l)
    <3>1. CASE g = f
      BY <1>8, <1>12, <2>2, <3>1 DEF Unstored
    <3>2. CASE g # f
      BY <1>8, <1>9, <1>11, <2>2, <3>2 DEF IInv, NothingStoredYet
    <3> QED BY <3>1, <3>2
  <2>3. \A u \in Thread : \A i \in DOMAIN stack'[u] :
          stack'[u][i].at \in {"creating", "storing"} => Unstored(stack'[u][i].key)
    BY <1>4, <1>10 DEF IInv, NothingStoredYet
  <2> QED BY <2>1, <2>2, <2>3 DEF NothingStoredYet
<1>19. SharedIsStored'
  <2>1. \A l, v : InTable(l, v)' <=> InTable(l, v)
    BY <1>8 DEF InTable
  <2>2. ASSUME NEW g \in Flight, NEW l \in Key,
               IsOf(g, l)', entry'[g].done, entry'[g].result # Null
        PROVE  InTable(l, entry'[g].result)
    <3>1. g # f
      BY <1>9, <1>13, <2>2
    <3> QED BY <1>9, <1>11, <2>2, <3>1 DEF IInv, SharedIsStored
  <2>3. fr.created = Null
    BY <1>2, <1>4 DEF IInv, SharedIsStored
  <2> QED BY <1>4, <1>8, <1>10, <2>1, <2>2, <2>3 DEF IInv, SharedIsStored
<1> QED BY <1>7, <1>14, <1>15, <1>16, <1>17, <1>18, <1>19 DEF IInv

(* The innermost call moves on with its flight. *)
LEMMA SameFlight ==
  ASSUME IInv, NEW t \in Thread, stack[t] # <<>>, NEW fr \in FrameType, Move(t, fr),
         fr.key = Top(t).key, fr.flight = Top(t).flight, UNCHANGED flights
  PROVE  \A g \in Flight, l \in Key : IsOf(g, l)' <=> IsOf(g, l)
<1> DEFINE n == Len(stack[t])
<1>1. n \in DOMAIN stack[t] /\ Top(t) = stack[t][n]
  BY CallIsFrame DEF IInv
<1>2. /\ \A u \in Thread \ {t} : stack'[u] = stack[u]
      /\ DOMAIN stack'[t] = DOMAIN stack[t]
      /\ \A i \in DOMAIN stack[t] : stack'[t][i] = IF i = n THEN fr ELSE stack[t][i]
  BY StackMove DEF IInv
<1> HIDE DEF n
<1>3. \A u \in Thread : /\ DOMAIN stack'[u] = DOMAIN stack[u]
                        /\ \A i \in DOMAIN stack[u] :
                             /\ stack'[u][i].key = stack[u][i].key
                             /\ stack'[u][i].flight = stack[u][i].flight
  BY <1>1, <1>2
<1> QED BY <1>3 DEF IsOf

(* A call joins the current flight of its key. *)
LEMMA JoinKeeps ==
  ASSUME IInv, NEW t \in Thread, At(t, "lookup"),
         flights[Top(t).key] # None,
         entry[flights[Top(t).key]].type = Top(t).type,
         Move(t, [Top(t) EXCEPT !.at = "joined", !.flight = flights[Top(t).key]]),
         UNCHANGED <<resources, flights, entry, holder, outcome, replaced>>
  PROVE  IInv'
<1> DEFINE n == Len(stack[t])
           k == Top(t).key
           f == flights[k]
           fr == [Top(t) EXCEPT !.at = "joined", !.flight = f]
<1>1. /\ stack[t] # <<>> /\ n \in DOMAIN stack[t] /\ Top(t) = stack[t][n]
      /\ Top(t) \in FrameType /\ Top(t).at = "lookup" /\ Top(t).flight = None
  BY CallIsFrame DEF At, IInv
<1>2. k \in Key /\ f \in Flight
  BY <1>1 DEF IInv, TypeOK, FrameType
<1>3. /\ fr \in FrameType /\ fr.at = "joined" /\ fr.flight = f /\ fr.key = k
      /\ fr.type = Top(t).type /\ fr.created = Top(t).created
  BY <1>1, <1>2 DEF FrameType, Place
<1>4. /\ \A u \in Thread \ {t} : stack'[u] = stack[u]
      /\ DOMAIN stack'[t] = DOMAIN stack[t]
      /\ \A i \in DOMAIN stack[t] : stack'[t][i] = IF i = n THEN fr ELSE stack[t][i]
  BY <1>1, <1>3, StackMove DEF IInv
<1>5. /\ CallsNest' /\ stack' \in [Thread -> Seq(FrameType)]
      /\ (\A u \in Thread : \A x \in Frames(u) : (x.at = "lookup") <=> (x.flight = None))'
  BY <1>1, <1>3, MoveKeepsOthers
<1>6. entry[f].type = fr.type /\ fr.created = Null /\ IsOf(f, k)
  BY <1>1, <1>2, <1>3 DEF IInv, SharedIsStored, IsOf
<1> HIDE DEF n, k, f, fr
<1>7. ASSUME NEW u \in Thread, NEW i \in DOMAIN stack'[u]
      PROVE  \/ i \in DOMAIN stack[u] /\ stack'[u][i] = stack[u][i]
             \/ stack'[u][i] = fr
  BY <1>4
<1>8. \A g \in Flight, l \in Key : IsOf(g, l)' <=> IsOf(g, l)
  <2>1. \A g \in Flight, l \in Key : IsOf(g, l)' => IsOf(g, l)
    BY <1>3, <1>6, <1>7 DEF IsOf
  <2>2. None \notin Flight
    BY ResourceAssumption
  <2>3. \A u \in Thread : \A i \in DOMAIN stack[u] : stack[u][i].flight \in Flight =>
          i \in DOMAIN stack'[u] /\ stack'[u][i] = stack[u][i]
    BY <1>1, <1>4, <2>2
  <2>4. \A g \in Flight, l \in Key : IsOf(g, l) => IsOf(g, l)'
    BY <2>3 DEF IsOf
  <2> QED BY <2>1, <2>4
<1>9. TypeOK'
  BY <1>5 DEF IInv, TypeOK
<1>10. FlightsBelong'
  BY <1>8 DEF IInv, FlightsBelong
<1>11. MakersAreAlone'
  BY <1>3, <1>7 DEF IInv, MakersAreAlone, Making
<1>12. TypesMatch'
  BY <1>3, <1>6, <1>7 DEF IInv, TypesMatch
<1>13. NothingStoredYet'
  BY <1>3, <1>7, <1>8 DEF IInv, NothingStoredYet, Unstored
<1>14. SharedIsStored'
  <2>1. \A l, v : InTable(l, v)' <=> InTable(l, v)
    BY DEF InTable
  <2> QED BY <1>3, <1>6, <1>7, <1>8, <2>1 DEF IInv, SharedIsStored
<1> QED BY <1>5, <1>9, <1>10, <1>11, <1>12, <1>13, <1>14 DEF IInv

(* The call that locks a flight that is not done is its maker. *)
LEMMA LockKeeps ==
  ASSUME IInv, NEW t \in Thread, At(t, "joined"),
         holder[Top(t).flight] = None, ~entry[Top(t).flight].done,
         holder' = [holder EXCEPT ![Top(t).flight] = t],
         Move(t, [Top(t) EXCEPT !.at = "creating"]),
         UNCHANGED <<resources, flights, entry, outcome, replaced>>
  PROVE  IInv'
<1> DEFINE n == Len(stack[t])
           k == Top(t).key
           f == Top(t).flight
           fr == [Top(t) EXCEPT !.at = "creating"]
<1>1. /\ stack[t] # <<>> /\ n \in DOMAIN stack[t] /\ Top(t) = stack[t][n]
      /\ Top(t) \in FrameType /\ Top(t).at = "joined" /\ f # None
  BY CallIsFrame DEF At, IInv
<1>2. k \in Key /\ f \in Flight /\ IsOf(f, k)
  BY <1>1, FrameFacts DEF IInv
<1>3. /\ fr \in FrameType /\ fr.at = "creating" /\ fr.flight = f /\ fr.key = k
      /\ fr.type = Top(t).type /\ fr.created = Null
  BY <1>1 DEF FrameType, Place, IInv, SharedIsStored
<1>4. /\ \A u \in Thread \ {t} : stack'[u] = stack[u]
      /\ DOMAIN stack'[t] = DOMAIN stack[t]
      /\ \A i \in DOMAIN stack[t] : stack'[t][i] = IF i = n THEN fr ELSE stack[t][i]
  BY <1>1, <1>3, StackMove DEF IInv
<1>5. /\ CallsNest' /\ stack' \in [Thread -> Seq(FrameType)]
      /\ (\A u \in Thread : \A x \in Frames(u) : (x.at = "lookup") <=> (x.flight = None))'
  BY <1>1, <1>3, MoveKeepsOthers
<1>6. \A g \in Flight, l \in Key : IsOf(g, l)' <=> IsOf(g, l)
  BY <1>1, <1>3, SameFlight
<1>7. flights[k] = f /\ Unstored(k) /\ entry[f].type = fr.type
  BY <1>1, <1>2, <1>3 DEF IInv, FlightsBelong, NothingStoredYet, TypesMatch
<1>8. /\ \A g \in Flight : holder'[g] = IF g = f THEN t ELSE holder[g]
      /\ holder' \in [Flight -> Thread \cup {None}]
      /\ t # None
  BY <1>2, ResourceAssumption DEF IInv, TypeOK
<1>9. holder[f] = None /\ ~entry[f].done
  OBVIOUS
<1> HIDE DEF n, k, f, fr
<1>10. ASSUME NEW u \in Thread, NEW i \in DOMAIN stack'[u]
       PROVE  \/ i \in DOMAIN stack[u] /\ stack'[u][i] = stack[u][i]
              \/ u = t /\ i = n /\ stack'[u][i] = fr
  BY <1>4
<1>11. TypeOK'
  BY <1>5, <1>8 DEF IInv, TypeOK
<1>12. FlightsBelong'
  BY <1>6 DEF IInv, FlightsBelong
<1>13. MakersAreAlone'
  <2>1. \A u \in Thread : \A i \in DOMAIN stack[u] : stack[u][i].at \in Making =>
          /\ stack[u][i].flight # f
          /\ holder'[stack[u][i].flight] = holder[stack[u][i].flight]
    <3>1. ASSUME NEW u \in Thread, NEW i \in DOMAIN stack[u], stack[u][i].at \in Making
          PROVE  stack[u][i].flight # f /\ stack[u][i].flight \in Flight
      <4>1. holder[stack[u][i].flight] = u /\ u # None
        BY <3>1, ResourceAssumption DEF IInv, MakersAreAlone
      <4> QED BY <1>9, <3>1, <4>1, FrameFacts DEF IInv, Making
    <3> QED BY <1>8, <3>1
  <2> SUFFICES ASSUME NEW u \in Thread, NEW i \in DOMAIN stack'[u], stack'[u][i].at \in Making
               PROVE  /\ flights[stack'[u][i].key] = stack'[u][i].flight
                      /\ holder'[stack'[u][i].flight] = u
                      /\ entry[stack'[u][i].flight].done <=> stack'[u][i].at = "erasing"
                      /\ \A j \in DOMAIN stack'[u] :
                           stack'[u][j].at \in Making /\ stack'[u][j].flight = stack'[u][i].flight
                             => i = j
    BY DEF MakersAreAlone
  <2>2. CASE i \in DOMAIN stack[u] /\ stack'[u][i] = stack[u][i]
    BY <1>3, <1>10, <2>1, <2>2 DEF IInv, MakersAreAlone
  <2>3. CASE u = t /\ i = n /\ stack'[u][i] = fr
    BY <1>2, <1>3, <1>7, <1>8, <1>9, <1>10, <2>1, <2>3
  <2> QED BY <1>10, <2>2, <2>3
<1>14. TypesMatch'
  BY <1>3, <1>7, <1>10 DEF IInv, TypesMatch
<1>15. NothingStoredYet'
  <2>1. \A l : Unstored(l)' <=> Unstored(l)
    BY DEF Unstored
  <2> QED BY <1>3, <1>6, <1>7, <1>8, <1>10, <2>1 DEF IInv, NothingStoredYet
<1>16. SharedIsStored'
  <2>1. \A l, v : InTable(l, v)' <=> InTable(l, v)
    BY DEF InTable
  <2> QED BY <1>3, <1>6, <1>10, <2>1 DEF IInv, SharedIsStored
<1> QED BY <1>5, <1>11, <1>12, <1>13, <1>14, <1>15, <1>16 DEF IInv

(* A maker moves on: nothing said of other flights changes, nor what its   *)
(* own says of types.                                                      *)
LEMMA MakerMoves ==
  ASSUME IInv, NEW t \in Thread, stack[t] # <<>>, Top(t).at \in Making,
         NEW fr \in FrameType, Move(t, fr), fr.at \in Making,
         fr.key = Top(t).key, fr.flight = Top(t).flight, fr.type = Top(t).type,
         entry' \in [Flight -> EntryType \cup {None}],
         \A g \in Flight : g # Top(t).flight => entry'[g] = entry[g],
         entry'[Top(t).flight] \in EntryType,
         entry'[Top(t).flight].type = entry[Top(t).flight].type,
         entry'[Top(t).flight].done <=> fr.at = "erasing",
         resources' \in [Key -> [value : Value \cup {Null}, type : Type] \cup {None}],
         \A k \in Key : resources'[k] # resources[k] =>
           k = Top(t).key /\ resources'[k].type = Top(t).type,
         UNCHANGED <<flights, holder, outcome, replaced>>
  PROVE  /\ TypeOK' /\ CallsNest' /\ FlightsBelong' /\ MakersAreAlone' /\ TypesMatch'
         /\ \A g \in Flight, l \in Key : IsOf(g, l)' <=> IsOf(g, l)
         /\ Top(t).key \in Key /\ Top(t).flight \in Flight /\ IsOf(Top(t).flight, Top(t).key)
         /\ flights[Top(t).key] = Top(t).flight /\ holder[Top(t).flight] = t
         /\ \A u \in Thread : \A i \in DOMAIN stack'[u] :
              \/ /\ i \in DOMAIN stack[u] /\ stack'[u][i] = stack[u][i]
                 /\ stack'[u][i].at \in Making => stack'[u][i].key # Top(t).key
              \/ stack'[u][i] = fr
<1> DEFINE n == Len(stack[t])
           k == Top(t).key
           f == Top(t).flight
<1>1. /\ n \in DOMAIN stack[t] /\ Top(t) = stack[t][n]
      /\ Top(t) \in FrameType /\ f # None
  BY CallIsFrame DEF IInv, Making
<1>2. k \in Key /\ f \in Flight /\ IsOf(f, k)
  BY <1>1, FrameFacts DEF IInv
<1>3. flights[k] = f /\ holder[f] = t
  BY <1>1 DEF IInv, MakersAreAlone
<1>4. /\ \A u \in Thread \ {t} : stack'[u] = stack[u]
      /\ DOMAIN stack'[t] = DOMAIN stack[t]
      /\ \A i \in DOMAIN stack[t] : stack'[t][i] = IF i = n THEN fr ELSE stack[t][i]
  BY StackMove DEF IInv
<1>5. /\ CallsNest' /\ stack' \in [Thread -> Seq(FrameType)]
      /\ (\A u \in Thread : \A x \in Frames(u) : (x.at = "lookup") <=> (x.flight = None))'
  BY <1>1, MoveKeepsOthers DEF Making
<1>6. \A g \in Flight, l \in Key : IsOf(g, l)' <=> IsOf(g, l)
  BY SameFlight
<1>7. /\ entry' \in [Flight -> EntryType \cup {None}] /\ entry'[f] \in EntryType
      /\ \A g \in Flight : g # f => entry'[g] = entry[g]
      /\ entry'[f].type = entry[f].type
      /\ entry'[f].done <=> fr.at = "erasing"
  OBVIOUS
<1>8. \A u \in Thread : \A i \in DOMAIN stack[u] :
        stack[u][i].at \in Making /\ (stack[u][i].flight = f \/ stack[u][i].key = k) =>
          u = t /\ i = n
  <2> SUFFICES ASSUME NEW u \in Thread, NEW i \in DOMAIN stack[u], stack[u][i].at \in Making,
                      stack[u][i].flight = f \/ stack[u][i].key = k
               PROVE  u = t /\ i = n
    OBVIOUS
  <2>1. flights[stack[u][i].key] = stack[u][i].flight /\ holder[stack[u][i].flight] = u
    BY DEF IInv, MakersAreAlone
  <2>2. stack[u][i].flight = f /\ u = t
    BY <1>3, <2>1
  <2> QED BY <1>1, <2>2 DEF IInv, MakersAreAlone
<1>9. /\ fr.flight = f /\ fr.key = k /\ fr.type = Top(t).type
      /\ entry[f].type = Top(t).type
  BY <1>1, SMTT(30) DEF IInv, TypesMatch, Making
<1>10. \A l \in Key : resources'[l] # resources[l] => l = k /\ resources'[l].type = Top(t).type
  OBVIOUS
<1> HIDE DEF n, k, f
<1>11. ASSUME NEW u \in Thread, NEW i \in DOMAIN stack'[u]
       PROVE  \/ /\ i \in DOMAIN stack[u] /\ stack'[u][i] = stack[u][i]
                 /\ stack'[u][i].at \in Making =>
                      stack'[u][i].key # k /\ stack'[u][i].flight # f
              \/ u = t /\ i = n /\ stack'[u][i] = fr
  BY <1>4, <1>8
<1>12. TypeOK'
  BY <1>5, <1>7 DEF IInv, TypeOK, EntryType
<1>13. FlightsBelong'
  BY <1>2, <1>3, <1>6, <1>7 DEF IInv, FlightsBelong
<1>14. MakersAreAlone'
  <2> SUFFICES ASSUME NEW u \in Thread, NEW i \in DOMAIN stack'[u], stack'[u][i].at \in Making
               PROVE  /\ flights[stack'[u][i].key] = stack'[u][i].flight
                      /\ holder[stack'[u][i].flight] = u
                      /\ entry'[stack'[u][i].flight].done <=> stack'[u][i].at = "erasing"
                      /\ \A j \in DOMAIN stack'[u] :
                           stack'[u][j].at \in Making /\ stack'[u][j].flight = stack'[u][i].flight
                             => i = j
    BY DEF MakersAreAlone
  <2>1. CASE u = t /\ i = n /\ stack'[u][i] = fr
    BY <1>2, <1>3, <1>7, <1>9, <1>11, <2>1
  <2>2. CASE /\ i \in DOMAIN stack[u] /\ stack'[u][i] = stack[u][i]
             /\ stack'[u][i].key # k /\ stack'[u][i].flight # f
    <3>1. stack[u][i].flight \in Flight
      BY <2>2, FrameFacts DEF IInv, Making
    <3> QED BY <1>7, <1>9, <1>11, <2>2, <3>1 DEF IInv, MakersAreAlone
  <2> QED BY <1>11, <2>1, <2>2
<1>15. TypesMatch'
  <2>1. \A g \in Flight : entry'[g].type = entry[g].type
    BY <1>7, <1>9
  <2>2. ASSUME NEW l \in Key, resources'[l] # None, flights[l] # None
        PROVE  resources'[l].type = entry'[flights[l]].type
    <3>1. flights[l] \in Flight
      BY <2>2 DEF IInv, TypeOK
    <3>2. CASE resources'[l] = resources[l]
      BY <2>1, <2>2, <3>1, <3>2 DEF IInv, TypesMatch
    <3>3. CASE resources'[l] # resources[l]
      BY <1>3, <1>9, <1>10, <2>1, <3>1, <3>3
    <3> QED BY <3>2, <3>3
  <2>3. ASSUME NEW u \in Thread, NEW i \in DOMAIN stack'[u], stack'[u][i].at # "lookup"
        PROVE  entry'[stack'[u][i].flight].type = stack'[u][i].type
    <3>1. CASE stack'[u][i] = fr
      BY <1>2, <1>9, <2>1, <3>1
    <3>2. CASE i \in DOMAIN stack[u] /\ stack'[u][i] = stack[u][i]
      <4>1. stack[u][i].flight \in Flight
        BY <2>3, <3>2, FrameFacts DEF IInv
      <4> QED BY <2>1, <2>3, <3>2, <4>1 DEF IInv, TypesMatch
    <3> QED BY <1>11, <3>1, <3>2
  <2> QED BY <2>2, <2>3 DEF TypesMatch
<1> QED BY <1>2, <1>3, <1>5, <1>6, <1>7, <1>11, <1>12, <1>13, <1>14, <1>15 DEF k, f

LEMMA FactoryReturnsKeeps ==
  ASSUME IInv, NEW t \in Thread, FactoryReturns(t)
  PROVE  IInv'
<1> DEFINE f == Top(t).flight
<1>1. /\ stack[t] # <<>> /\ Top(t) = stack[t][Len(stack[t])] /\ Len(stack[t]) \in DOMAIN stack[t]
      /\ Top(t) \in FrameType /\ Top(t).at = "creating"
  BY CallIsFrame DEF FactoryReturns, At, IInv
<1>2. f \in Flight /\ IsOf(f, Top(t).key) /\ entry[f] \in EntryType /\ ~entry[f].done
  <2>1. f # None /\ f \in Flight /\ IsOf(f, Top(t).key)
    BY <1>1, FrameFacts DEF IInv
  <2>2. Top(t).key \in Key
    BY <1>1 DEF FrameType
  <2>3. entry[f] \in EntryType
    BY <2>1, <2>2 DEF IInv, FlightsBelong
  <2>4. ~entry[f].done
    BY <1>1 DEF IInv, MakersAreAlone, Making
  <2> QED BY <2>1, <2>3, <2>4
<1>3. Top(t).created = Null
  BY <1>1 DEF IInv, SharedIsStored
<1>4. PICK fr \in FrameType, e \in EntryType :
        /\ Move(t, fr)
        /\ \/ fr.at = "storing" /\ fr.created # Null
           \/ fr.at = "finishing" /\ fr.created = Null
        /\ fr.key = Top(t).key /\ fr.flight = f /\ fr.type = Top(t).type
        /\ e.type = entry[f].type /\ ~e.done
        /\ entry' = [entry EXCEPT ![f] = e]
  <2>1. entry = [entry EXCEPT ![f] = entry[f]]
    BY <1>2 DEF IInv, TypeOK
  <2>2. CASE \E v \in Value : /\ Move(t, [Top(t) EXCEPT !.at = "storing", !.created = v])
                              /\ UNCHANGED entry
    <3>1. PICK v \in Value : Move(t, [Top(t) EXCEPT !.at = "storing", !.created = v])
      BY <2>2
    <3> DEFINE fr == [Top(t) EXCEPT !.at = "storing", !.created = v]
    <3>2. /\ fr \in FrameType /\ fr.at = "storing" /\ fr.key = Top(t).key /\ fr.flight = f
          /\ fr.type = Top(t).type /\ fr.created # Null
      BY <1>1, ResourceAssumption DEF FrameType, Place
    <3> QED BY <1>2, <2>1, <2>2, <3>1, <3>2
  <2> DEFINE fr == [Top(t) EXCEPT !.at = "finishing"]
  <2>3. /\ fr \in FrameType /\ fr.at = "finishing" /\ fr.key = Top(t).key /\ fr.flight = f
        /\ fr.type = Top(t).type /\ fr.created = Null
    BY <1>1, <1>3 DEF FrameType, Place
  <2>4. CASE Move(t, fr) /\ UNCHANGED entry
    BY <1>2, <2>1, <2>3, <2>4
  <2>5. CASE Move(t, fr) /\ entry' = [entry EXCEPT ![f].failed = TRUE]
    <3> DEFINE e == [entry[f] EXCEPT !.failed = TRUE]
    <3>1. e \in EntryType /\ e.type = entry[f].type /\ ~e.done
      BY <1>2 DEF EntryType
    <3>2. entry' = [entry EXCEPT ![f] = e]
      BY <2>5
    <3> HIDE DEF e
    <3> QED BY <2>3, <2>5, <3>1, <3>2
  <2> QED BY <2>2, <2>4, <2>5 DEF FactoryReturns
<1>5. UNCHANGED <<resources, flights, holder, outcome, replaced>>
  BY DEF FactoryReturns
<1>6. resources' \in [Key -> [value : Value \cup {Null}, type : Type] \cup {None}]
  BY <1>5 DEF IInv, TypeOK
<1>7. /\ Top(t).at \in Making /\ fr.at \in Making
      /\ \A g \in Flight : entry'[g] = IF g = f THEN e ELSE entry[g]
      /\ entry' \in [Flight -> EntryType \cup {None}]
      /\ entry'[f] = e /\ (entry'[f].done <=> fr.at = "erasing")
  BY <1>1, <1>2, <1>4 DEF Making, IInv, TypeOK, EntryType
<1>8. /\ TypeOK' /\ CallsNest' /\ FlightsBelong' /\ MakersAreAlone' /\ TypesMatch'
      /\ \A g \in Flight, l \in Key : IsOf(g, l)' <=> IsOf(g, l)
      /\ holder[f] = t
      /\ \A u \in Thread : \A i \in DOMAIN stack'[u] :
           \/ i \in DOMAIN stack[u] /\ stack'[u][i] = stack[u][i]
           \/ stack'[u][i] = fr
  BY <1>1, <1>4, <1>5, <1>6, <1>7, MakerMoves
<1>9. t # None /\ Unstored(Top(t).key)
  BY <1>1, ResourceAssumption DEF IInv, NothingStoredYet
<1> HIDE DEF f
<1>10. NothingStoredYet'
  <2>1. \A l : Unstored(l)' <=> Unstored(l)
    BY <1>5 DEF Unstored
  <2> QED BY <1>4, <1>5, <1>8, <1>9, <1>7, <2>1 DEF IInv, NothingStoredYet
<1>11. SharedIsStored'
  <2>1. \A l, v : InTable(l, v)' <=> InTable(l, v)
    BY <1>5 DEF InTable
  <2> QED BY <1>4, <1>5, <1>8, <1>7, <2>1 DEF IInv, SharedIsStored
<1> QED BY <1>8, <1>10, <1>11 DEF IInv

(* What is stored under a key had nothing before it, or replaces what      *)
(* SetResource put there.                                                  *)
LEMMA StoreKeeps ==
  ASSUME IInv, NEW t \in Thread, Store(t)
  PROVE  IInv'
<1> DEFINE f == Top(t).flight
           k == Top(t).key
           c == Top(t).created
<1>1. /\ stack[t] # <<>> /\ Top(t) = stack[t][Len(stack[t])] /\ Len(stack[t]) \in DOMAIN stack[t]
      /\ Top(t) \in FrameType /\ Top(t).at = "storing"
  BY CallIsFrame DEF Store, At, IInv
<1>2. f \in Flight /\ k \in Key /\ IsOf(f, k) /\ entry[f] \in EntryType /\ ~entry[f].done
  <2>1. f # None /\ f \in Flight /\ IsOf(f, k)
    BY <1>1, FrameFacts DEF IInv
  <2> QED BY <1>1, <2>1 DEF IInv, FlightsBelong, MakersAreAlone, Making, FrameType
<1>3. Unstored(k)
  BY <1>1 DEF IInv, NothingStoredYet
<1>4. UNCHANGED <<flights, holder, outcome, replaced>>
  BY DEF Store
<1>5. /\ t # None /\ c \in Value /\ Top(t).type \in Type
  BY <1>1, ResourceAssumption DEF FrameType, IInv, SharedIsStored
<1>6. CASE /\ resources' = [resources EXCEPT ![k] = [value |-> c, type |-> Top(t).type]]
           /\ Move(t, [Top(t) EXCEPT !.at = "finishing"])
           /\ UNCHANGED entry
  <2> DEFINE fr == [Top(t) EXCEPT !.at = "finishing"]
             r == [value |-> c, type |-> Top(t).type]
  <2>1. /\ fr \in FrameType /\ fr.at = "finishing" /\ fr.key = k /\ fr.flight = f
        /\ fr.type = Top(t).type /\ fr.created = c
    BY <1>1 DEF FrameType, Place
  <2>2. r \in [value : Value \cup {Null}, type : Type] /\ r # None /\ r.value = c /\ r.type = Top(t).type
    BY <1>5, <1>6, ResourceAssumption
  <2>3. /\ entry' \in [Flight -> EntryType \cup {None}] /\ entry'[f] \in EntryType
        /\ \A g \in Flight : entry'[g] = entry[g]
        /\ entry'[f].type = entry[f].type
    BY <1>2, <1>6 DEF IInv, TypeOK, EntryType
  <2>4. Move(t, fr)
    BY <1>6
  <2>5. \A l \in Key : resources'[l] = IF l = k THEN r ELSE resources[l]
    BY <1>2, <1>6 DEF IInv, TypeOK
  <2>6. resources' \in [Key -> [value : Value \cup {Null}, type : Type] \cup {None}]
    BY <1>6, <2>2 DEF IInv, TypeOK
  <2> HIDE DEF fr, r
  <2>7. /\ Top(t).at \in Making /\ fr.at \in Making
        /\ entry'[f].done <=> fr.at = "erasing"
        /\ \A l \in Key : resources'[l] # resources[l] => l = k /\ resources'[l].type = Top(t).type
    BY <1>1, <1>2, <2>1, <2>2, <2>3, <2>5 DEF Making
  <2>8. /\ TypeOK' /\ CallsNest' /\ FlightsBelong' /\ MakersAreAlone' /\ TypesMatch'
        /\ \A g \in Flight, l \in Key : IsOf(g, l)' <=> IsOf(g, l)
        /\ flights[k] = f /\ holder[f] = t
        /\ \A u \in Thread : \A i \in DOMAIN stack'[u] :
             \/ /\ i \in DOMAIN stack[u] /\ stack'[u][i] = stack[u][i]
                /\ stack'[u][i].at \in Making => stack'[u][i].key # k
             \/ stack'[u][i] = fr
    BY <1>1, <1>4, <2>1, <2>3, <2>4, <2>6, <2>7, MakerMoves, SMTT(30)
  <2> DEFINE InTableNow(l, v) == l \in replaced \/ (resources'[l] # None /\ resources'[l].value = v)
             UnstoredNow(l) == l \in replaced \/ resources'[l] = None
  <2>9. \A v : InTable(k, v) => k \in replaced
    BY <1>3 DEF InTable, Unstored
  <2>10. \A l \in Key : \A v : InTable(l, v) => InTableNow(l, v)
    BY <2>5, <2>9 DEF InTable
  <2>11. InTableNow(k, c)
    BY <1>2, <2>2, <2>5
  <2>12. \A l \in Key : l # k => (UnstoredNow(l) <=> Unstored(l))
    BY <2>5 DEF Unstored
  <2>13. \A u \in Thread : \A i \in DOMAIN stack[u] : stack[u][i].key \in Key
    BY FrameFacts DEF IInv
  <2> HIDE DEF f, k, c, InTableNow, UnstoredNow
  <2>14. NothingStoredYet'
    <3>1. ASSUME NEW g \in Flight, NEW l \in Key, IsOf(g, l), ~entry[g].done, holder[g] = None
          PROVE  UnstoredNow(l)
      <4>1. Unstored(l) /\ flights[l] = g
        BY <3>1 DEF IInv, NothingStoredYet, FlightsBelong
      <4>2. l # k
        BY <1>5, <2>3, <2>8, <3>1, <4>1
      <4> QED BY <2>12, <4>1, <4>2
    <3>2. ASSUME NEW u \in Thread, NEW i \in DOMAIN stack'[u],
                 stack'[u][i].at \in {"creating", "storing"}
          PROVE  UnstoredNow(stack'[u][i].key)
      <4>1. i \in DOMAIN stack[u] /\ stack'[u][i] = stack[u][i] /\ stack[u][i].key # k
        BY <2>1, <2>3, <2>8, <3>2 DEF Making
      <4>2. Unstored(stack[u][i].key)
        BY <3>2, <4>1 DEF IInv, NothingStoredYet
      <4> QED BY <2>12, <2>13, <4>1, <4>2
    <3> QED BY <1>4, <2>3, <2>8, <3>1, <3>2 DEF NothingStoredYet, Unstored, UnstoredNow
  <2>15. SharedIsStored'
    <3>1. ASSUME NEW u \in Thread, NEW i \in DOMAIN stack'[u]
          PROVE  /\ stack'[u][i].at = "storing" => stack'[u][i].created # Null
                 /\ stack'[u][i].at \in {"lookup", "joined", "creating"} =>
                      stack'[u][i].created = Null
                 /\ stack'[u][i].at = "finishing" /\ stack'[u][i].created # Null =>
                      InTableNow(stack'[u][i].key, stack'[u][i].created)
      <4>1. CASE stack'[u][i] = fr
        BY <2>1, <2>11, <4>1
      <4>2. CASE i \in DOMAIN stack[u] /\ stack'[u][i] = stack[u][i]
        BY <2>10, <2>13, <4>2 DEF IInv, SharedIsStored
      <4> QED BY <2>3, <2>8, <4>1, <4>2
    <3>2. ASSUME NEW g \in Flight, NEW l \in Key,
                 IsOf(g, l)', entry'[g].done, entry'[g].result # Null
          PROVE  InTableNow(l, entry'[g].result)
      <4>1. InTable(l, entry[g].result)
        BY <2>3, <2>8, <3>2 DEF IInv, SharedIsStored
      <4> QED BY <2>3, <2>8, <2>10, <4>1
    <3>3. \A u \in Thread : outcome'[u].kind = "value" =>
            outcome'[u].key \in Key /\ InTableNow(outcome'[u].key, outcome'[u].value)
      BY <1>4, <2>10 DEF IInv, SharedIsStored
    <3> QED BY <1>4, <3>1, <3>2, <3>3 DEF SharedIsStored, InTable, InTableNow
  <2> QED BY <2>3, <2>8, <2>14, <2>15 DEF IInv
<1>7. CASE /\ entry' = [entry EXCEPT ![f].failed = TRUE]
           /\ Move(t, [Top(t) EXCEPT !.at = "finishing", !.created = Null])
           /\ UNCHANGED resources
  <2> DEFINE fr == [Top(t) EXCEPT !.at = "finishing", !.created = Null]
             e == [entry[f] EXCEPT !.failed = TRUE]
  <2>1. /\ fr \in FrameType /\ fr.at = "finishing" /\ fr.key = k /\ fr.flight = f
        /\ fr.type = Top(t).type /\ fr.created = Null
    BY <1>1 DEF FrameType, Place
  <2>2. e \in EntryType /\ e.type = entry[f].type /\ ~e.done
    BY <1>2 DEF EntryType
  <2>3. /\ entry' \in [Flight -> EntryType \cup {None}]
        /\ \A g \in Flight : entry'[g] = IF g = f THEN e ELSE entry[g]
    <3>1. entry' = [entry EXCEPT ![f] = e]
      BY <1>7
    <3> HIDE DEF e
    <3> QED BY <1>2, <2>2, <3>1 DEF IInv, TypeOK, EntryType
  <2>4. Move(t, fr)
    BY <1>7
  <2> HIDE DEF fr, e
  <2>5. resources' = resources
    BY <1>7
  <2>6. resources' \in [Key -> [value : Value \cup {Null}, type : Type] \cup {None}]
    BY <2>5 DEF IInv, TypeOK
  <2>7. entry'[f] = e
    BY <1>2, <2>3
  <2>8. Top(t).at \in Making /\ fr.at \in Making
    BY <1>1, <2>1 DEF Making
  <2>9. entry'[f].done <=> fr.at = "erasing"
    BY <2>1, <2>2, <2>7
  <2>10. /\ TypeOK' /\ CallsNest' /\ FlightsBelong' /\ MakersAreAlone' /\ TypesMatch'
         /\ \A g \in Flight, l \in Key : IsOf(g, l)' <=> IsOf(g, l)
         /\ holder[f] = t
         /\ \A u \in Thread : \A i \in DOMAIN stack'[u] :
              \/ i \in DOMAIN stack[u] /\ stack'[u][i] = stack[u][i]
              \/ stack'[u][i] = fr
    BY <1>1, <1>4, <2>1, <2>2, <2>3, <2>4, <2>5, <2>6, <2>7, <2>8, <2>9, MakerMoves
  <2> HIDE DEF f, k, c
  <2>11. NothingStoredYet'
    <3>1. \A l : Unstored(l)' <=> Unstored(l)
      BY <1>4, <2>5 DEF Unstored
    <3> QED BY <1>4, <1>5, <2>1, <2>3, <2>10, <3>1 DEF IInv, NothingStoredYet
  <2>12. SharedIsStored'
    <3>1. \A l, v : InTable(l, v)' <=> InTable(l, v)
      BY <1>4, <2>5 DEF InTable
    <3> QED BY <1>4, <2>1, <2>2, <2>3, <2>10, <3>1 DEF IInv, SharedIsStored
  <2> QED BY <2>10, <2>11, <2>12 DEF IInv
<1> QED BY <1>5, <1>6, <1>7 DEF Store

(* What is shared from now on is what was stored. *)
LEMMA FinishKeeps ==
  ASSUME IInv, NEW t \in Thread, Finish(t)
  PROVE  IInv'
<1> DEFINE f == Top(t).flight
           k == Top(t).key
           c == Top(t).created
           fr == [Top(t) EXCEPT !.at = "erasing"]
           e == [entry[f] EXCEPT !.result = c, !.done = TRUE]
<1>1. /\ stack[t] # <<>> /\ Top(t) = stack[t][Len(stack[t])] /\ Len(stack[t]) \in DOMAIN stack[t]
      /\ Top(t) \in FrameType /\ Top(t).at = "finishing"
  BY CallIsFrame DEF Finish, At, IInv
<1>2. f \in Flight /\ k \in Key /\ IsOf(f, k) /\ entry[f] \in EntryType
  <2>1. f # None /\ f \in Flight /\ IsOf(f, k)
    BY <1>1, FrameFacts DEF IInv
  <2> QED BY <1>1, <2>1 DEF IInv, FlightsBelong, FrameType
<1>3. /\ fr \in FrameType /\ fr.at = "erasing" /\ fr.key = k /\ fr.flight = f
      /\ fr.type = Top(t).type
  BY <1>1 DEF FrameType, Place
<1>4. e \in EntryType /\ e.type = entry[f].type /\ e.done /\ e.result = c
  BY <1>1, <1>2 DEF EntryType, FrameType
<1>5. entry' = [entry EXCEPT ![f] = e]
  BY <1>2 DEF Finish, IInv, TypeOK
<1>6. Move(t, fr) /\ UNCHANGED <<resources, flights, holder, outcome, replaced>>
  BY DEF Finish
<1>7. resources' \in [Key -> [value : Value \cup {Null}, type : Type] \cup {None}]
  BY <1>6 DEF IInv, TypeOK
<1>8. c # Null => InTable(k, c)
  BY <1>1 DEF IInv, SharedIsStored
<1> HIDE DEF fr, e
<1>9. /\ Top(t).at \in Making /\ fr.at \in Making
      /\ \A g \in Flight : entry'[g] = IF g = f THEN e ELSE entry[g]
      /\ entry' \in [Flight -> EntryType \cup {None}]
      /\ entry'[f] = e /\ (entry'[f].done <=> fr.at = "erasing")
  BY <1>1, <1>2, <1>3, <1>4, <1>5 DEF Making, IInv, TypeOK, EntryType
<1>10. /\ TypeOK' /\ CallsNest' /\ FlightsBelong' /\ MakersAreAlone' /\ TypesMatch'
       /\ \A g \in Flight, l \in Key : IsOf(g, l)' <=> IsOf(g, l)
       /\ \A u \in Thread : \A i \in DOMAIN stack'[u] :
            \/ i \in DOMAIN stack[u] /\ stack'[u][i] = stack[u][i]
            \/ stack'[u][i] = fr
  BY <1>1, <1>3, <1>4, <1>6, <1>7, <1>9, MakerMoves
<1> HIDE DEF f, k, c
<1>11. NothingStoredYet'
  <2>1. \A l : Unstored(l)' <=> Unstored(l)
    BY <1>6 DEF Unstored
  <2> QED BY <1>3, <1>4, <1>6, <1>10, <1>9, <2>1 DEF IInv, NothingStoredYet
<1>12. SharedIsStored'
  <2>1. \A l, v : InTable(l, v)' <=> InTable(l, v)
    BY <1>6 DEF InTable
  <2>2. \A l \in Key : IsOf(f, l) => l = k
    BY <1>2 DEF IInv, FlightsBelong
  <2> QED BY <1>3, <1>4, <1>6, <1>8, <1>10, <1>9, <2>1, <2>2 DEF IInv, SharedIsStored
<1> QED BY <1>10, <1>11, <1>12 DEF IInv

(* A call that finds its flight done, or has made it so, returns what the  *)
(* flight shares; what it leaves behind concerns only others that have it. *)
LEMMA FlightReturns ==
  ASSUME IInv, NEW t \in Thread, stack[t] # <<>>, entry[Top(t).flight].done,
         Return(t, Kind(entry[Top(t).flight]), entry[Top(t).flight].result),
         \/ /\ Top(t).at = "joined"
            /\ UNCHANGED <<flights, holder>>
         \/ /\ Top(t).at = "erasing"
            /\ flights' = [flights EXCEPT ![Top(t).key] = None]
            /\ holder' = [holder EXCEPT ![Top(t).flight] = None],
         entry' = EntriesAfter(t, flights'),
         UNCHANGED <<resources, replaced>>
  PROVE  IInv'
<1> DEFINE n == Len(stack[t])
           k == Top(t).key
           f == Top(t).flight
<1>1. /\ n \in DOMAIN stack[t] /\ Top(t) = stack[t][n] /\ Top(t) \in FrameType
      /\ Top(t).at \in {"joined", "erasing"} /\ f # None
  BY CallIsFrame DEF IInv
<1>2. k \in Key /\ f \in Flight /\ IsOf(f, k) /\ entry[f] \in EntryType
  <2>1. k \in Key /\ f \in Flight /\ IsOf(f, k)
    BY <1>1, FrameFacts DEF IInv
  <2> QED BY <2>1 DEF IInv, FlightsBelong
<1>3. /\ stack' \in [Thread -> Seq(FrameType)]
      /\ \A u \in Thread \ {t} : stack'[u] = stack[u]
      /\ DOMAIN stack'[t] = DOMAIN stack[t] \ {n}
      /\ \A i \in DOMAIN stack'[t] : stack'[t][i] = stack[t][i]
  BY StackPop DEF IInv, Return
<1>4. Top(t).at = "erasing" => flights[k] = f /\ holder[f] = t
  <2>1. Top(t).at = "erasing" => Top(t).at \in Making
    BY DEF Making
  <2>2. \A i \in DOMAIN stack[t] : stack[t][i].at \in Making =>
          flights[stack[t][i].key] = stack[t][i].flight /\ holder[stack[t][i].flight] = t
    BY Zenon DEF IInv, MakersAreAlone
  <2>3. Top(t).at \in Making => flights[Top(t).key] = Top(t).flight /\ holder[Top(t).flight] = t
    BY <1>1, <2>2, Zenon
  <2> QED BY <2>1, <2>3, Zenon
<1>5. /\ \A l \in Key : \/ flights'[l] = flights[l]
                        \/ Top(t).at = "erasing" /\ l = k /\ flights'[l] = None
      /\ flights' \in [Key -> Flight \cup {None}]
  BY <1>2 DEF IInv, TypeOK
<1>6. /\ \A g \in Flight : \/ holder'[g] = holder[g]
                           \/ Top(t).at = "erasing" /\ g = f
      /\ holder' \in [Flight -> Thread \cup {None}]
  BY <1>2 DEF IInv, TypeOK
<1>7. /\ entry' \in [Flight -> EntryType \cup {None}]
      /\ \A g \in Flight : g # f => entry'[g] = entry[g]
      /\ \/ entry' = entry
         \/ /\ \A l \in Key : flights'[l] # f
            /\ \A u \in Thread \ {t} : \A i \in DOMAIN stack[u] : stack[u][i].flight # f
  <2>1. \/ entry' = entry
        \/ /\ entry' = [entry EXCEPT ![f] = None]
           /\ \A l \in Key : flights'[l] # f
           /\ \A u \in Thread \ {t} : \A fr \in Frames(u) : fr.flight # f
    BY DEF EntriesAfter
  <2>2. CASE entry' = entry
    BY <2>2 DEF IInv, TypeOK, EntryType
  <2>3. CASE /\ entry' = [entry EXCEPT ![f] = None]
             /\ \A l \in Key : flights'[l] # f
             /\ \A u \in Thread \ {t} : \A fr \in Frames(u) : fr.flight # f
    BY <1>2, <2>3 DEF IInv, TypeOK, EntryType, Frames
  <2> QED BY <2>1, <2>2, <2>3
<1>8. /\ entry[f].done /\ UNCHANGED <<resources, replaced>>
      /\ \A i \in DOMAIN stack[t] : i # n => stack[t][i].at = "creating"
  BY DEF IInv, CallsNest
<1>9. Kind(entry[f]) \in {"value", "null", "failure"} /\ entry[f].result \in Value \cup {Null}
      /\ (Kind(entry[f]) = "value" => entry[f].result # Null)
  BY <1>2 DEF Kind, EntryType
<1>10. /\ outcome' \in [Thread -> OutcomeType]
       /\ \A u \in Thread :
            \/ outcome'[u] = outcome[u]
            \/ outcome'[u] = [kind |-> Kind(entry[f]), key |-> k, value |-> entry[f].result]
  BY <1>9, OutcomeIsTyped DEF IInv
<1> HIDE DEF n, k, f
<1>11. \A u \in Thread : \A i \in DOMAIN stack'[u] :
         i \in DOMAIN stack[u] /\ stack'[u][i] = stack[u][i]
  BY <1>3
<1>12. \A g \in Flight, l \in Key : IsOf(g, l)' => IsOf(g, l)
  <2>1. \A g \in Flight, l \in Key : flights'[l] = g => flights[l] = g
    BY <1>5, ResourceAssumption
  <2> QED BY <1>11, <2>1 DEF IsOf
<1>13. \A i \in DOMAIN stack'[t] : stack'[t][i].flight # f
  <2> SUFFICES ASSUME NEW i \in DOMAIN stack'[t] PROVE stack'[t][i].flight # f
    OBVIOUS
  <2>1. i \in DOMAIN stack[t] /\ stack'[t][i] = stack[t][i] /\ stack[t][i].at = "creating"
    BY <1>3, <1>8
  <2>2. ~entry[stack[t][i].flight].done
    BY <2>1 DEF IInv, MakersAreAlone, Making
  <2> QED BY <1>8, <2>1, <2>2
<1>14. \A g \in Flight, l \in Key : IsOf(g, l)' => entry'[g] = entry[g]
  <2> SUFFICES ASSUME NEW g \in Flight, NEW l \in Key, IsOf(g, l)', g = f
               PROVE  entry'[g] = entry[g]
    BY <1>7
  <2>1. CASE flights'[l] = g
    BY <1>7, <2>1
  <2>2. CASE \E u \in Thread : \E i \in DOMAIN stack'[u] : stack'[u][i].flight = g
    BY <1>3, <1>7, <1>13, <2>2
  <2> QED BY <2>1, <2>2 DEF IsOf
<1>15. ASSUME NEW u \in Thread, NEW i \in DOMAIN stack'[u], stack'[u][i].at # "lookup"
       PROVE  /\ stack[u][i].flight \in Flight /\ stack[u][i].key \in Key
              /\ entry'[stack[u][i].flight] = entry[stack[u][i].flight]
  <2>1. i \in DOMAIN stack[u] /\ stack'[u][i] = stack[u][i]
    BY <1>11
  <2>2. /\ stack[u][i].flight \in Flight /\ stack[u][i].key \in Key
        /\ IsOf(stack[u][i].flight, stack[u][i].key)
    BY <1>15, <2>1, FrameFacts DEF IInv
  <2>3. CASE stack[u][i].flight # f
    BY <1>7, <2>2, <2>3
  <2>4. CASE stack[u][i].flight = f
    <3>1. u # t
      BY <1>13, <2>1, <2>4
    <3> QED BY <1>7, <2>1, <2>2, <2>4, <3>1
  <2> QED BY <2>2, <2>3, <2>4
<1>16. TypeOK'
  <2>1. \A u \in Thread : \A i \in DOMAIN stack'[u] :
          stack'[u][i].at = "lookup" <=> stack'[u][i].flight = None
    BY <1>11, FrameFacts DEF IInv
  <2>2. (\A u \in Thread : \A x \in Frames(u) : (x.at = "lookup") <=> (x.flight = None))'
    BY <2>1 DEF Frames
  <2> QED BY <1>3, <1>5, <1>6, <1>7, <1>8, <1>10, <2>2 DEF IInv, TypeOK, EntryType, OutcomeType
<1>17. CallsNest'
  <2>1. \A i \in DOMAIN stack'[t] : stack'[t][i].at = "creating"
    BY <1>3, <1>8
  <2> QED BY <1>3, <2>1 DEF IInv, CallsNest
<1>18. FlightsBelong'
  <2> SUFFICES ASSUME NEW g \in Flight, NEW l \in Key, IsOf(g, l)'
               PROVE  /\ entry'[g] \in EntryType
                      /\ ~entry'[g].done => flights'[l] = g
                      /\ \A m \in Key : IsOf(g, m)' => m = l
    BY DEF FlightsBelong
  <2>1. IsOf(g, l) /\ entry'[g] = entry[g]
    BY <1>12, <1>14
  <2>2. ~entry[g].done => flights'[l] = g
    <3>1. ~entry[g].done => flights[l] = g /\ g # f
      BY <1>8, <2>1 DEF IInv, FlightsBelong
    <3> QED BY <1>4, <1>5, <3>1
  <2> QED BY <1>12, <2>1, <2>2 DEF IInv, FlightsBelong
<1>19. MakersAreAlone'
  <2> SUFFICES ASSUME NEW u \in Thread, NEW i \in DOMAIN stack'[u], stack'[u][i].at \in Making
               PROVE  /\ flights'[stack'[u][i].key] = stack'[u][i].flight
                      /\ holder'[stack'[u][i].flight] = u
                      /\ entry'[stack'[u][i].flight].done <=> stack'[u][i].at = "erasing"
                      /\ \A j \in DOMAIN stack'[u] :
                           stack'[u][j].at \in Making /\ stack'[u][j].flight = stack'[u][i].flight
                             => i = j
    BY DEF MakersAreAlone
  <2>1. i \in DOMAIN stack[u] /\ stack'[u][i] = stack[u][i]
    BY <1>11
  <2>2. /\ stack[u][i].flight \in Flight /\ stack[u][i].key \in Key
        /\ entry'[stack[u][i].flight] = entry[stack[u][i].flight]
    BY <1>15, <2>1 DEF Making
  <2>3. flights[stack[u][i].key] = stack[u][i].flight /\ holder[stack[u][i].flight] = u
    BY <2>1 DEF IInv, MakersAreAlone
  <2>4. Top(t).at = "erasing" => stack[u][i].flight # f
    BY <1>4, <1>13, <2>1, <2>3
  <2>5. flights'[stack[u][i].key] = stack[u][i].flight /\ holder'[stack[u][i].flight] = u
    BY <1>4, <1>5, <1>6, <2>2, <2>3, <2>4
  <2> QED BY <1>11, <2>1, <2>2, <2>5 DEF IInv, MakersAreAlone
<1>20. TypesMatch'
  <2>1. ASSUME NEW l \in Key, resources'[l] # None, flights'[l] # None
        PROVE  resources'[l].type = entry'[flights'[l]].type
    <3>1. flights'[l] = flights[l] /\ flights'[l] \in Flight
      BY <1>5, <2>1
    <3>2. entry'[flights'[l]] = entry[flights[l]]
      <4>1. CASE flights'[l] = f
        BY <1>7, <3>1, <4>1
      <4>2. CASE flights'[l] # f
        BY <1>7, <3>1, <4>2
      <4> QED BY <4>1, <4>2
    <3> QED BY <1>8, <2>1, <3>1, <3>2 DEF IInv, TypesMatch
  <2>2. ASSUME NEW u \in Thread, NEW i \in DOMAIN stack'[u], stack'[u][i].at # "lookup"
        PROVE  entry'[stack'[u][i].flight].type = stack'[u][i].type
    BY <1>11, <1>15, <2>2 DEF IInv, TypesMatch
  <2> QED BY <2>1, <2>2 DEF TypesMatch
<1>21. NothingStoredYet'
  <2>1. \A l : Unstored(l)' <=> Unstored(l)
    BY <1>8 DEF Unstored
  <2>2. \A g \in Flight : ~entry[g].done => holder'[g] = holder[g]
    BY <1>6, <1>8
  <2> QED BY <1>11, <1>12, <1>14, <2>1, <2>2 DEF IInv, NothingStoredYet
<1>22. SharedIsStored'
  <2>1. \A l, v : InTable(l, v)' <=> InTable(l, v)
    BY <1>8 DEF InTable
  <2>2. Kind(entry[f]) = "value" => InTable(k, entry[f].result)
    BY <1>2, <1>8, <1>9 DEF IInv, SharedIsStored
  <2>3. ASSUME NEW u \in Thread, outcome'[u].kind = "value"
        PROVE  outcome'[u].key \in Key /\ InTable(outcome'[u].key, outcome'[u].value)
    BY <1>2, <1>10, <2>2, <2>3 DEF IInv, SharedIsStored
  <2>4. \A g \in Flight, l \in Key : IsOf(g, l)' /\ entry'[g].done /\ entry'[g].result # Null =>
          InTable(l, entry'[g].result)
    BY <1>12, <1>14 DEF IInv, SharedIsStored
  <2>5. \A u \in Thread : \A i \in DOMAIN stack'[u] :
          /\ stack'[u][i].at = "storing" => stack'[u][i].created # Null
          /\ stack'[u][i].at \in {"lookup", "joined", "creating"} => stack'[u][i].created = Null
          /\ stack'[u][i].at = "finishing" /\ stack'[u][i].created # Null =>
               InTable(stack'[u][i].key, stack'[u][i].created)
    BY <1>11 DEF IInv, SharedIsStored
  <2> QED BY <2>1, <2>3, <2>4, <2>5 DEF SharedIsStored
<1> QED BY <1>16, <1>17, <1>18, <1>19, <1>20, <1>21, <1>22 DEF IInv

LEMMA EraseKeeps ==
  ASSUME IInv, NEW t \in Thread, Erase(t)
  PROVE  IInv'
<1>1. /\ stack[t] # <<>> /\ Top(t).at = "erasing"
      /\ Top(t) = stack[t][Len(stack[t])] /\ Len(stack[t]) \in DOMAIN stack[t]
  BY CallIsFrame DEF IInv, Erase, At
<1>2. entry[Top(t).flight].done
  BY <1>1 DEF IInv, MakersAreAlone, Making
<1> QED BY <1>1, <1>2, FlightReturns DEF Erase

LEMMA LockFlightKeeps ==
  ASSUME IInv, NEW t \in Thread, LockFlight(t)
  PROVE  IInv'
<1>1. stack[t] # <<>> /\ Top(t).at = "joined"
  BY DEF LockFlight, At
<1>2. CASE entry[Top(t).flight].done
  <2>1. UNCHANGED <<flights, holder, resources, replaced>>
    BY <1>2 DEF LockFlight
  <2>2. entry' = EntriesAfter(t, flights')
    BY <1>2, <2>1 DEF LockFlight
  <2> QED BY <1>1, <1>2, <2>1, <2>2, FlightReturns DEF LockFlight
<1>3. CASE ~entry[Top(t).flight].done
  BY <1>3, LockKeeps DEF LockFlight
<1> QED BY <1>2, <1>3

LEMMA LookupKeeps ==
  ASSUME IInv, NEW t \in Thread, Hit(t) \/ JoinFlight(t)
  PROVE  IInv'
<1>1. /\ At(t, "lookup") /\ stack[t] # <<>>
      /\ UNCHANGED <<resources, flights, entry, holder, replaced>>
  BY DEF Hit, JoinFlight, At
<1>2. CASE Return(t, "type_mismatch", Null)
  BY <1>1, <1>2, LookupReturns
<1>3. ASSUME NEW kind \in {"value", "null"},
             resources[Top(t).key] # None,
             Return(t, kind, resources[Top(t).key].value)
      PROVE  IInv'
  <2>1. resources[Top(t).key].value \in Value \cup {Null}
    <3>1. Top(t).key \in Key
      BY <1>1, CallIsFrame DEF IInv, FrameType
    <3>2. resources \in [Key -> [value : Value \cup {Null}, type : Type] \cup {None}]
      BY DEF IInv, TypeOK
    <3> QED BY <1>3, <3>1, <3>2
  <2>2. InTable(Top(t).key, resources[Top(t).key].value)
    BY <1>3 DEF InTable
  <2> QED BY <1>1, <1>3, <2>1, <2>2, LookupReturns
<1>4. CASE JoinFlight(t) /\ ~Return(t, "type_mismatch", Null)
  BY <1>1, <1>4, JoinKeeps DEF JoinFlight
<1>5. CASE Hit(t) /\ ~Return(t, "type_mismatch", Null)
  <2> DEFINE found == resources[Top(t).key].value
  <2>1. /\ resources[Top(t).key] # None
        /\ Return(t, IF found = Null THEN "null" ELSE "value", found)
    BY <1>5 DEF Hit
  <2> QED BY <1>3, <2>1
<1> QED BY <1>2, <1>4, <1>5

LEMMA CallKeeps ==
  ASSUME IInv, NEW t \in Thread, Call(t) \/ CallFromFactory(t)
  PROVE  IInv'
<1>1. Calls \subseteq Key \X Type
  BY ResourceAssumption
<1>2. CASE Call(t)
  <2>1. PICK c \in Calls : stack' = [stack EXCEPT ![t] = <<Frame(c[1], c[2])>>]
    BY <1>2 DEF Call
  <2>2. stack[t] = <<>> /\ c[1] \in Key /\ c[2] \in Type
    BY <1>1, <1>2 DEF Call
  <2>3. Append(stack[t], Frame(c[1], c[2])) = <<Frame(c[1], c[2])>>
    BY <2>2
  <2>4. stack' = [stack EXCEPT ![t] = Append(@, Frame(c[1], c[2]))]
    BY <2>1, <2>3
  <2> QED BY <1>2, <2>2, <2>4, PushKeeps DEF Call
<1>3. CASE CallFromFactory(t)
  <2>1. PICK k \in Needs[Top(t).key], type \in Type :
          /\ <<k, type>> \in Calls
          /\ stack' = [stack EXCEPT ![t] = Append(@, Frame(k, type))]
    BY <1>3 DEF CallFromFactory
  <2>2. k \in Key
    BY <1>1, <2>1
  <2>3. stack[t] # <<>> /\ Top(t).at = "creating"
    BY <1>3 DEF CallFromFactory, At
  <2> QED BY <1>3, <2>1, <2>2, <2>3, PushKeeps DEF CallFromFactory
<1> QED BY <1>2, <1>3

(* SetResource stores only what agrees with the flight of its key.  *)
LEMMA SetResourceKeeps ==
  ASSUME IInv, NEW t \in Thread, SetResource(t)
  PROVE  IInv'
<1>1. PICK c \in Calls, v \in Value \cup {Null} :
        /\ resources[c[1]] # None => resources[c[1]].type = c[2]
        /\ flights[c[1]] # None => entry[flights[c[1]]].type = c[2]
        /\ resources' = [resources EXCEPT ![c[1]] = [value |-> v, type |-> c[2]]]
        /\ replaced' = replaced \cup {c[1]}
  BY DEF SetResource
<1> DEFINE k == c[1]
           r == [value |-> v, type |-> c[2]]
<1>2. k \in Key /\ c[2] \in Type
  BY ResourceAssumption
<1>3. r \in [value : Value \cup {Null}, type : Type] /\ r.type = c[2]
  BY <1>2
<1>4. UNCHANGED <<flights, entry, holder, stack, outcome>>
  BY DEF SetResource
<1>5. flights[k] # None => entry[flights[k]].type = r.type
  BY <1>1, <1>3
<1>6. resources' = [resources EXCEPT ![k] = r] /\ replaced' = replaced \cup {k}
  BY <1>1
<1> HIDE DEF k, r
<1>7. \A l \in Key : resources'[l] = IF l = k THEN r ELSE resources[l]
  BY <1>6 DEF IInv, TypeOK
<1>8. \A g, l : IsOf(g, l)' <=> IsOf(g, l)
  BY <1>4 DEF IsOf
<1>9. TypeOK'
  <2>1. resources' \in [Key -> [value : Value \cup {Null}, type : Type] \cup {None}]
    BY <1>3, <1>6 DEF IInv, TypeOK
  <2>2. replaced' \in SUBSET Key
    BY <1>2, <1>6 DEF IInv, TypeOK
  <2> QED BY <1>4, <2>1, <2>2 DEF IInv, TypeOK, Frames
<1>10. CallsNest' /\ FlightsBelong' /\ MakersAreAlone'
  BY <1>4, <1>8 DEF IInv, CallsNest, FlightsBelong, MakersAreAlone
<1>11. TypesMatch'
  BY <1>4, <1>5, <1>7 DEF IInv, TypesMatch
<1>12. \A l \in Key : (Unstored(l) => Unstored(l)') /\ \A x : InTable(l, x) => InTable(l, x)'
  BY <1>6, <1>7 DEF Unstored, InTable
<1>13. \A u \in Thread : \A i \in DOMAIN stack[u] : stack[u][i].key \in Key
  BY FrameFacts DEF IInv
<1>14. NothingStoredYet'
  <2>1. \A u \in Thread : \A i \in DOMAIN stack[u] :
          stack[u][i].at \in {"creating", "storing"} =>
            stack[u][i].key \in replaced' \/ resources'[stack[u][i].key] = None
    BY <1>6, <1>7, <1>13 DEF IInv, NothingStoredYet, Unstored
  <2> QED BY <1>4, <1>8, <1>12, <2>1 DEF IInv, NothingStoredYet, Unstored
<1>15. SharedIsStored'
  <2> DEFINE InTableNow(l, x) ==
               l \in replaced' \/ (resources'[l] # None /\ resources'[l].value = x)
  <2>1. \A l \in Key : \A x : InTable(l, x) => InTableNow(l, x)
    BY <1>6, <1>7 DEF InTable
  <2> HIDE DEF InTableNow
  <2>2. \A u \in Thread : \A i \in DOMAIN stack[u] :
          /\ stack[u][i].at = "storing" => stack[u][i].created # Null
          /\ stack[u][i].at \in {"lookup", "joined", "creating"} => stack[u][i].created = Null
          /\ stack[u][i].at = "finishing" /\ stack[u][i].created # Null =>
               InTableNow(stack[u][i].key, stack[u][i].created)
    BY <1>13, <2>1 DEF IInv, SharedIsStored
  <2>3. \A g \in Flight, l \in Key : IsOf(g, l) /\ entry[g].done /\ entry[g].result # Null =>
          InTableNow(l, entry[g].result)
    BY <2>1 DEF IInv, SharedIsStored
  <2>4. \A u \in Thread : outcome[u].kind = "value" =>
          outcome[u].key \in Key /\ InTableNow(outcome[u].key, outcome[u].value)
    BY <2>1 DEF IInv, SharedIsStored
  <2> QED BY <1>4, <1>8, <2>2, <2>3, <2>4 DEF SharedIsStored, InTable, InTableNow
<1> QED BY <1>9, <1>10, <1>11, <1>14, <1>15 DEF IInv

-----------------------------------------------------------------------------
(* The theorems *)

LEMMA InitIInv == Init => IInv
<1> SUFFICES ASSUME Init PROVE IInv
  OBVIOUS
<1>1. TypeOK
  <2>1. NoOutcome \in OutcomeType
    BY DEF NoOutcome, OutcomeType
  <2>2. \A t \in Thread : Frames(t) = {}
    BY DEF Init, Frames
  <2> QED BY <2>1, <2>2 DEF Init, TypeOK, OutcomeType
<1>2. \A f \in Flight, k \in Key : ~IsOf(f, k)
  BY ResourceAssumption DEF Init, IsOf
<1>3. CallsNest /\ FlightsBelong /\ MakersAreAlone /\ TypesMatch /\ NothingStoredYet
  BY <1>2 DEF Init, CallsNest, FlightsBelong, MakersAreAlone, TypesMatch, NothingStoredYet
<1>4. SharedIsStored
  BY <1>2 DEF Init, SharedIsStored, NoOutcome
<1> QED BY <1>1, <1>3, <1>4 DEF IInv

LEMMA StepKeepsInvariant ==
  ASSUME IInv, [Next]_vars
  PROVE  IInv'
<1>1. ASSUME NEW t \in Thread, Proceed(t)
      PROVE  IInv'
  BY <1>1, LookupKeeps, StartFlightKeeps, LockFlightKeeps, FactoryReturnsKeeps, StoreKeeps,
     FinishKeeps, EraseKeeps DEF Proceed
<1>2. CASE UNCHANGED vars
  BY <1>2 DEF vars, IInv, TypeOK, Frames, CallsNest, FlightsBelong, IsOf, MakersAreAlone,
     TypesMatch, NothingStoredYet, Unstored, SharedIsStored, InTable
<1> QED BY <1>1, <1>2, CallKeeps, SetResourceKeeps DEF Next

(* A maker has its flight to itself, and what a flight shares is stored.   *)
THEOREM FlightsInvariant == Spec => []IInv
<1>1. IInv /\ [Next]_vars => IInv'
  BY StepKeepsInvariant
<1> QED BY <1>1, InitIInv, PTL DEF Spec

(* No two factories of one resource run at once, whatever the order in     *)
(* which callers look up, lock and erase flights.                          *)
THEOREM FactoriesRunAlone == Spec => []OneFactoryPerKey
<1>1. IInv => OneFactoryPerKey
  <2> SUFFICES ASSUME IInv, NEW t \in Thread, NEW u \in Thread,
                      NEW i \in DOMAIN stack[t], NEW j \in DOMAIN stack[u],
                      stack[t][i].key = stack[u][j].key,
                      stack[t][i].at \in Making, stack[u][j].at \in Making
               PROVE  t = u
    BY DEF OneFactoryPerKey, Frames
  <2>1. /\ flights[stack[t][i].key] = stack[t][i].flight /\ holder[stack[t][i].flight] = t
        /\ flights[stack[u][j].key] = stack[u][j].flight /\ holder[stack[u][j].flight] = u
    BY DEF IInv, MakersAreAlone
  <2> QED BY <2>1
<1> QED BY <1>1, FlightsInvariant, PTL

(* Whoever got a resource got the one that is in the table for everybody,  *)
(* unless SetResource replaced it.                                         *)
THEOREM ResourcesAreShared == Spec => []ReturnedIsShared
<1>1. IInv => ReturnedIsShared
  BY DEF IInv, SharedIsStored, InTable, ReturnedIsShared
<1> QED BY <1>1, FlightsInvariant, PTL

(* The table, the flight of a name and the calls for it agree on the type, *)
(* so no cast is to a foreign type.                                        *)
THEOREM CastsAreSafe == Spec => []TypesAgree
<1>1. IInv => TypesAgree
  <2> SUFFICES ASSUME IInv PROVE TypesAgree
    OBVIOUS
  <2>1. \A k \in Key : resources[k] # None /\ flights[k] # None =>
          resources[k].type = entry[flights[k]].type
    BY DEF IInv, TypesMatch
  <2>2. ASSUME NEW t \in Thread, NEW i \in DOMAIN stack[t], stack[t][i].at # "lookup"
        PROVE  /\ entry[stack[t][i].flight].type = stack[t][i].type
               /\ stack[t][i].at \in Making /\ resources[stack[t][i].key] # None =>
                    resources[stack[t][i].key].type = stack[t][i].type
    <3>1. stack[t][i].key \in Key /\ stack[t][i].flight # None
      BY <2>2, FrameFacts DEF IInv
    <3>2. stack[t][i].at \in Making => flights[stack[t][i].key] = stack[t][i].flight
      BY DEF IInv, MakersAreAlone
    <3>3. entry[stack[t][i].flight].type = stack[t][i].type
      BY <2>2 DEF IInv, TypesMatch
    <3> QED BY <2>1, <3>1, <3>2, <3>3
  <2> QED BY <2>1, <2>2 DEF TypesAgree, Frames
<1> QED BY <1>1, FlightsInvariant, PTL
=============================================================================
