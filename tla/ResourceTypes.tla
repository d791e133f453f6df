--------------------------- MODULE ResourceTypes ---------------------------
(***************************************************************************)
(* The sizes of a runner machine (pkg/datastore/resource_type.go): a       *)
(* number in the program, a name in JSON and in MySQL's ENUM column, an    *)
(* enumeration of protobuf between the starter and the shoes plugin.       *)
(***************************************************************************)
EXTENDS Integers, Sequences

Names == <<"nano", "micro", "small", "medium", "large", "xlarge", "2xlarge",
           "3xlarge", "4xlarge">>

Unknown == 0

\* The iota constants of the type; 0 is ResourceTypeUnknown.
ResourceType == 0 .. 9

String(r) == IF r \in 1 .. 9 THEN Names[r] ELSE "unknown"

\* What the column resource_type accepts: sql_mode is TRADITIONAL, so any
\* other string fails the statement.
Enum == {Names[i] : i \in 1 .. 9}

UnmarshalResourceTypeString(in) ==
  IF in \in Enum THEN CHOOSE r \in 1 .. 9 : Names[r] = in ELSE Unknown

\* To the database and from it.
Value(r) == String(r)
Scan(src) == UnmarshalResourceTypeString(src)

\* To JSON and from it; a field that is left out keeps the zero value.
MarshalJSON(r) == String(r)
UnmarshalJSON(in) == UnmarshalResourceTypeString(in)

\* The constants of api/proto/myshoes.proto, in the same order.
PbNames == <<"Nano", "Micro", "Small", "Medium", "Large", "XLarge",
             "XLarge2", "XLarge3", "XLarge4">>

ToPb(r) == IF r \in 1 .. 9 THEN PbNames[r] ELSE "Unknown"

UnmarshalResourceTypePb(p) ==
  IF \E r \in 1 .. 9 : PbNames[r] = p
  THEN CHOOSE r \in 1 .. 9 : PbNames[r] = p ELSE Unknown

=============================================================================
