----------------------------- MODULE Parameters -----------------------------
(***************************************************************************)
(* Typed parameters (contracts/parameters.h) over a configuration schema   *)
(* (contracts/config_schema_validation.h): how a JSON object becomes the   *)
(* parameters of a Node, a model or a backend, and back.                   *)
(*                                                                         *)
(* A JSON value is [type, value]: an object is a function on its keys, an  *)
(* array a sequence, a number a whole number or, when it is not finite,    *)
(* Null.  A string is a text or, where only some strings are allowed, a    *)
(* TLA+ string.  Parameters are the values without their types.            *)
(***************************************************************************)
EXTENDS TraceableBatch

CONSTANTS
  MaxInt,   \* the largest int
  MaxFloat  \* the largest float

Json(type, value) == [type |-> type, value |-> value]
JsonObject(fields) == Json("object", fields)

-----------------------------------------------------------------------------
(* Declaring a parameter.  A field is its definition and the C++ type of   *)
(* its member; an optional member is Null when it is not given.            *)

KindOf(type) ==
  CASE type \in {"int", "int64"} -> "integer"
    [] type \in {"float", "double"} -> "number"
    [] type = "bool" -> "boolean"
    [] type = "struct" -> "object"
    [] OTHER -> type

Field(name, type) ==
  [name |-> name, type |-> type, kind |-> KindOf(type), optional |-> FALSE,
   required |-> FALSE, default |-> Null, minimum |-> Null, maximum |-> Null,
   enum |-> <<>>, items |-> Null, fields |-> Null, file |-> FALSE]
RequiredField(name, type) == [Field(name, type) EXCEPT !.required = TRUE]
OptionalField(name, type) == [Field(name, type) EXCEPT !.optional = TRUE]
DefaultField(name, type, value) ==
  [Field(name, type) EXCEPT !.default =
     Json(IF type = "map" THEN "object" ELSE KindOf(type), value)]
InRange(field, low, high) == [field EXCEPT !.minimum = low, !.maximum = high]
OneOf(field, allowed) == [field EXCEPT !.enum = allowed]
File(field) == [field EXCEPT !.file = TRUE]
Struct(fields) == [Field("", "struct") EXCEPT !.fields = fields]
Items(field, item) == [field EXCEPT !.items = item]

(* Every member but an optional one is either required or has a default. *)
Build(field) ==
  IF field.optional THEN ~field.required /\ field.default = Null
  ELSE field.required # (field.default # Null)

Names(fields) == Range(Column(fields, "name"))

-----------------------------------------------------------------------------
(* Normalizing: the errors are those of all fields, not of the first.      *)

Kinds == {"string", "integer", "number", "boolean", "object", "array", "map", "json"}

Matches(kind, type) ==
  CASE kind = "number" -> type \in {"integer", "number"}
    [] kind \in {"map", "object"} -> type = "object"
    [] kind = "json" -> type # "null"
    [] OTHER -> type = kind

ConfigError(path, kind) == [value |-> Null, errors |-> {[path |-> path, kind |-> kind]}]
Normal(value) == [value |-> value, errors |-> {}]

(* Bounds are whole numbers here. *)
IsValueBelowMinimum(field, number) == field.minimum # Null /\ number < field.minimum
IsValueAboveMaximum(field, number) == field.maximum # Null /\ number > field.maximum

AllOf(type, parts) ==
  [value |-> Json(type, [k \in DOMAIN parts |-> parts[k].value]),
   errors |-> UNION {parts[k].errors : k \in DOMAIN parts}]

RECURSIVE NormalizeConfigObject(_, _, _), NormalizeConfigValue(_, _, _)

(* A field that is not given takes its default or, without one, is left    *)
(* out; an unknown key is an error.                                        *)
NormalizeConfigObject(fields, input, path) ==
  LET FieldOf(name) == SelectSeq(fields, LAMBDA f : f.name = name)[1]
      given == DOMAIN input.value
      missing == {name \in Names(fields) \ given : FieldOf(name).required}
      kept == {name \in Names(fields) : name \in given \/ FieldOf(name).default # Null}
      Value(field) == IF field.name \in given THEN input.value[field.name] ELSE field.default
      At(names, kind) == {[path |-> Append(path, name), kind |-> kind] : name \in names}
      Parts(names) ==
        AllOf("object", [name \in names |->
          NormalizeConfigValue(FieldOf(name), Value(FieldOf(name)), Append(path, name))])
  IN IF input.type # "object" THEN ConfigError(path, "not_an_object")
     ELSE [Parts(kept \ missing) EXCEPT !.errors = @
             \cup At(given \ Names(fields), "unknown_field") \cup At(missing, "missing_field")]

NormalizeConfigValue(field, value, path) ==
  LET number == value.type \in {"integer", "number"} IN
  IF number /\ value.value = Null THEN ConfigError(path, "non_finite")
  ELSE IF ~Matches(field.kind, value.type) THEN ConfigError(path, "type_mismatch")
  ELSE IF number /\ (\/ IsValueBelowMinimum(field, value.value)
                     \/ IsValueAboveMaximum(field, value.value))
  THEN ConfigError(path, "out_of_range")
  ELSE IF field.enum # <<>> /\ value.type = "string" /\ value.value \notin Range(field.enum)
  THEN ConfigError(path, "invalid_enum")
  ELSE IF field.fields # Null THEN NormalizeConfigObject(field.fields, value, path)
  ELSE IF field.items # Null
  THEN AllOf(value.type,
             [k \in DOMAIN value.value |->
                NormalizeConfigValue(field.items, value.value[k], Append(path, ToString(k)))])
  ELSE Normal(value)

ConfigFieldErrorCode(kind) ==
  CASE kind = "unknown_field" -> "unknown_config_field"
    [] kind = "missing_field" -> "missing_config_field"
    [] kind \in {"out_of_range", "non_finite"} -> "config_field_range"
    [] kind = "invalid_enum" -> "config_field_enum"
    [] OTHER -> "config_field_type"

-----------------------------------------------------------------------------
(* A schema that may be registered *)

RECURSIVE ValidateConfigFieldDefinitions(_)
ValidateConfigFieldDefinitions(fields) ==
  LET Valid(field) ==
        /\ field.name # "" /\ field.kind \in Kinds
        /\ field.file => field.kind = "string"
        /\ field.minimum # Null \/ field.maximum # Null => field.kind \in {"integer", "number"}
        /\ field.minimum # Null /\ field.maximum # Null => field.minimum <= field.maximum
        /\ field.enum # <<>> => /\ field.kind = "string" /\ IsInjective(field.enum)
                                /\ "" \notin Range(field.enum)
        /\ field.items # Null =>
             /\ field.kind \in {"array", "map"}
             /\ ValidateConfigFieldDefinitions(<<[field.items EXCEPT !.name = "item"]>>)
        /\ field.fields # Null =>
             field.kind = "object" /\ ValidateConfigFieldDefinitions(field.fields)
        /\ field.default # Null =>
             NormalizeConfigValue(field, field.default, <<>>).errors = {}
  IN IsInjective(Column(fields, "name")) /\ \A field \in Range(fields) : Valid(field)

(* What makes the constructor of Parameters throw. *)
Declared(fields) ==
  (\A field \in Range(fields) : Build(field)) /\ ValidateConfigFieldDefinitions(fields)

-----------------------------------------------------------------------------
(* Parsing and reading *)

Fits(type, number) ==
  CASE type = "int" -> number \in -MaxInt - 1 .. MaxInt
    [] type = "float" -> number \in -MaxFloat .. MaxFloat
    [] OTHER -> TRUE

RECURSIVE ExtractParameterValue(_, _), Assign(_, _)

(* The value of a member, as a NodeResult. *)
ExtractParameterValue(field, json) ==
  LET Of(parts) == IF \E k \in DOMAIN parts : ~parts[k].ok THEN Failure("item", Null, "")
                   ELSE Success([k \in DOMAIN parts |-> parts[k].value])
  IN IF field.items # Null
     THEN Of([k \in DOMAIN json.value |-> ExtractParameterValue(field.items, json.value[k])])
     ELSE IF field.fields # Null THEN Assign(field.fields, json.value)
     ELSE IF field.kind \in {"integer", "number"} /\ ~Fits(field.type, json.value)
     THEN Failure("out_of_range", Null, "")
     ELSE IF field.type = "json" THEN Success(json) ELSE Success(json.value)

Assign(fields, normalized) ==
  LET FieldOf(name) == SelectSeq(fields, LAMBDA f : f.name = name)[1]
      Value(field) == IF field.name \in DOMAIN normalized THEN normalized[field.name]
                      ELSE NormalizeConfigValue(field, field.default, <<>>).value
      Member(field) ==
        IF field.name \in DOMAIN normalized \/ field.default # Null
        THEN ExtractParameterValue(field, Value(field))
        ELSE IF field.optional THEN Success(Null) ELSE Failure("missing", Null, "")
      All(members) ==
        IF \E name \in DOMAIN members : ~members[name].ok THEN Failure("assign", Null, "")
        ELSE Success([name \in DOMAIN members |-> members[name].value])
  IN All([name \in Names(fields) |-> Member(FieldOf(name))])

(* Parse up to the validators, which are given with each spec. *)
Parse(fields, config) ==
  LET Assigned(normalized) == IF normalized.errors # {} THEN Failure("config", Null, "")
                              ELSE Assign(fields, normalized.value.value)
  IN Assigned(NormalizeConfigObject(fields, config, <<>>))

-----------------------------------------------------------------------------
(* The parameters of generation, which llm_generate and prompt_guided_llm  *)
(* include in theirs.  A number is in hundredths: the least above 0 is 1.  *)

DefaultOptions ==
  [system_prompt |-> <<>>, temperature |-> 70, max_tokens |-> 128, top_k |-> 0, top_p |-> 90,
   repetition_penalty |-> 100, stop_words |-> <<>>, random_seed |-> -1]
GenerateParameters ==
  LET Option(name, type) == DefaultField(name, type, DefaultOptions[name]) IN
  << Option("system_prompt", "string"),
     InRange(Option("temperature", "float"), 0, 200),
     InRange(Option("max_tokens", "int"), 1, 32768),
     InRange(Option("top_k", "int"), 0, MaxInt),
     InRange(Option("top_p", "float"), 1, 100),
     InRange(Option("repetition_penalty", "float"), 1, 10000),
     Items(Option("stop_words", "array"), Field("", "string")),
     InRange(Option("random_seed", "int64"), -1, MaxInt) >>
RejectEmptyStopWords(params) == <<>> \notin Range(params.stop_words)
=============================================================================
