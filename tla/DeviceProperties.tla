-------------------------- MODULE DeviceProperties --------------------------
(***************************************************************************)
(* The properties of the AndroidDevice, and the area of guest memory with  *)
(* the prop_info records that __system_property_find answers.  A record is *)
(* written when a property is first found and stays for good; setting the  *)
(* property only makes the next find write another one.  Some properties   *)
(* are computed from others when they are not set themselves.              *)
(*                                                                         *)
(* An emulator has a device of its own.                                    *)
(***************************************************************************)
EXTENDS Integers, Sequences, SequencesExt

CONSTANTS
    Keys,          \* the names of properties, as sorted() orders them
    Computed,      \* the names that _computed knows, with those each is made of
    Values, Unset, \* what a property may be set to, and what one is that is not
    Bytes,         \* the length of a name, of its last part, and of a value with its parts
    REGION_BYTES   \* _REGION_BYTES

PA_DATA == 128
BT_NAME == 20
NAME    == 96
PROP_VALUE_MAX == 92

Names == ToSet(Keys)

(* A value that was set is that of the name; one that is computed is given by *)
(* the values of the names it is made of.                                    *)
PropertyValue ==
    UNION ({[{n} -> Values \cup {Unset}] : n \in Names}
               \cup {[Computed[n] -> Values \cup {Unset}] : n \in DOMAIN Computed})

ASSUME PropertiesAssumption ==
    /\ Keys \in Seq(Names)
    /\ Unset \notin Values
    /\ REGION_BYTES \in Nat
    /\ DOMAIN Computed \subseteq Names
    /\ \A n \in DOMAIN Computed : Computed[n] \subseteq Names \ DOMAIN Computed
    /\ Bytes.name \in [Names -> Nat] /\ Bytes.leaf \in [Names -> Nat]
    /\ Bytes.value \in [PropertyValue -> Nat]

VARIABLES
    properties,    \* _properties
    records,       \* the records in the area, as they were written
    byName,        \* _by_name: a record, or 0
    end,           \* _cursor
    outdated       \* history: computed names that have a record and were made of something else since

pvars == <<properties, records, byName, end, outdated>>

(* Those of build.prop are like those that are set at once.                  *)
PInit ==
    /\ properties = [n \in Names |-> Unset]
    /\ records = <<>> /\ end = PA_DATA
    /\ byName = [n \in Names |-> 0]
    /\ outdated = {}

(***************************************************************************)
(* getprop.  The value of a computed property is what it is made of.       *)
(***************************************************************************)
Stored(n) == properties[n] # Unset

Getprop(n) ==
    IF n \in DOMAIN Computed /\ ~Stored(n)
    THEN [m \in Computed[n] |-> properties[m]]
    ELSE [m \in {n} |-> properties[m]]

Exists(n) == Stored(n) \/ n \in DOMAIN Computed

(***************************************************************************)
(* _write_info: a node with the last part of the name, then the record,    *)
(* with the value behind it if it is long.                                 *)
(***************************************************************************)
Align(value, to) == ((value + to - 1) \div to) * to

InfoAt(n, cursor) == Align(cursor + BT_NAME + Bytes.leaf[n] + 1, 4)

InfoBytes(n, length) ==
    LET struct == NAME + Bytes.name[n] + 1
    IN  IF length < PROP_VALUE_MAX THEN struct ELSE Align(struct, 8) + length + 1

NextEnd(n, length, cursor) == Align(InfoAt(n, cursor) + InfoBytes(n, length), 8)

(* intern, on the area so far.  A record that does not fit raises.           *)
Intern(area, n) ==
    LET length == Bytes.value[Getprop(n)]
        next   == NextEnd(n, length, area.end)
    IN  IF area.byName[n] # 0 THEN area
        ELSE IF next > REGION_BYTES THEN [area EXCEPT !.raised = TRUE]
        ELSE [area EXCEPT
                !.records = Append(@, [name  |-> n, value |-> Getprop(n), node |-> area.end,
                                       last |-> InfoAt(n, area.end) + InfoBytes(n, length) - 1]),
                !.byName[n] = Len(area.records) + 1,
                !.end = next]

(* The names asked for, in the order of sorted(), until one raises.          *)
Interned(area, n, names) == IF n \in names /\ ~area.raised THEN Intern(area, n) ELSE area

Found(names) ==
    LET area[k \in 0 .. Len(Keys)] ==
            IF k = 0 THEN [records |-> records, byName |-> byName, end |-> end, raised |-> FALSE]
            ELSE Interned(area[k - 1], Keys[k], names)
        found == area[Len(Keys)]
    IN  /\ records' = found.records /\ byName' = found.byName /\ end' = found.end
        /\ UNCHANGED <<properties, outdated>>

(* __system_property_find; and __system_property_foreach, which finds all    *)
(* that are stored before the first callback.                                *)
Find(n) == Exists(n) /\ Found({n})

Foreach == Found({n \in Names : Stored(n)})

(***************************************************************************)
(* set, which merge does for one name after the other.                     *)
(***************************************************************************)
(* Fault: what was found before is found again. *)
InvalidatedNever(n) == byName

Invalidated(n) == [byName EXCEPT ![n] = 0]

SetProperty(n, v) ==
    /\ properties' = [properties EXCEPT ![n] = v]
    /\ byName' = Invalidated(n)
    /\ outdated' = {m \in outdated \cup DOMAIN Computed :
                       byName'[m] # 0 /\ (m \in outdated \/ (n \in Computed[m] /\ ~Stored(m)))}
    /\ UNCHANGED <<records, end>>

PNext ==
    \/ \E n \in Names : Find(n) \/ \E v \in Values : SetProperty(n, v)
    \/ Foreach

PSpec == PInit /\ [][PNext]_pvars

-----------------------------------------------------------------------------
(* The records lie in the area one behind the other, whatever the lengths of *)
(* names and values: one that a guest holds is not written over by those of  *)
(* properties found later.                                                   *)
RecordsApart ==
    \A i \in DOMAIN records :
        /\ records[i].node >= PA_DATA /\ records[i].last < REGION_BYTES
        /\ i < Len(records) => records[i].last < records[i + 1].node

(* What find leads to is the property asked for, with the value that get     *)
(* answers now, though it was set since; but for a computed property that is *)
(* now made of something else than when it was first found.                  *)
FindsAgree ==
    \A n \in Names :
        byName[n] # 0 =>
            /\ records[byName[n]].name = n
            /\ n \notin outdated => records[byName[n]].value = Getprop(n)

(* Both: find and read answer what get answers.                              *)
PropertiesAgree == RecordsApart /\ FindsAgree
=============================================================================
