---------------------------- MODULE ChirpImport ----------------------------
(***************************************************************************)
(* The import of a CHIRP channel list into the preset list of radio.toml   *)
(* (chirp.py, with save_presets of config/save.py and the validation of    *)
(* presets.py).                                                            *)
(*                                                                         *)
(* A row is read or skipped, never approximated.  The merged list is       *)
(* validated before the file is touched; then a backup, a scratch copy     *)
(* that is merged into, and the replacement, with a crash between any two. *)
(*                                                                         *)
(* A name is its casefolded key, and 0 a number that does not parse, a     *)
(* tone that is not a standard one and an entry's absent tone.             *)
(***************************************************************************)
EXTENDS Integers, Sequences, FiniteSets

CONSTANTS Lists,       \* the exports that may be imported
          Files,       \* the preset lists that radio.toml may begin with
          MaxImports, MaxCrashes

VARIABLES
    toml,      \* radio.toml: the list of presets in it
    backup, scratch,
    csv,       \* the export at hand, and whether it replaces the list
    replace,
    pc, imports, crashes

vars == <<toml, backup, scratch, csv, replace, pc, imports, crashes>>

-----------------------------------------------------------------------------
(* A row. *)

\* The transmit frequency of an entry that has none.
Absent == 0 - 99

Signs == [d \in {"-", "+"} |-> IF d = "-" THEN 0 - 1 ELSE 1]

\* Where the row transmits, for a duplex that is understood.
Transmits(row) ==
    IF row.duplex = "" THEN Absent
    ELSE row.frequency + Signs[row.duplex] * row.offset

Readable(row) ==
    /\ row.name # ""
    /\ row.frequency # 0
    /\ row.duplex \in {"", "-", "+"}
    /\ row.duplex # "" => row.offset # 0
    /\ row.tone \in {"", "Tone", "TSQL", "Cross"}
    /\ row.tone \in {"Tone", "Cross"} => row.rTone # 0
    /\ row.tone \in {"TSQL", "Cross"} => row.cTone # 0
    /\ row.tone = "Cross" => row.cross \in {"absent", "Tone->Tone"}


TxTone(row) ==
    CASE row.tone = "" -> 0
      [] row.tone \in {"Tone", "Cross"} -> row.rTone
      [] row.tone = "TSQL" -> row.cTone

RxTone(row) == IF row.tone \in {"TSQL", "Cross"} THEN row.cTone ELSE 0

Preset(row) ==
    [name |-> row.name, frequency |-> row.frequency, tx |-> Transmits(row),
     txTone |-> TxTone(row), rxTone |-> RxTone(row)]

\* A row is kept if it can be read and no row before it that can has its name
\* (the first of those is the one seen).
Kept(rows) ==
    {i \in 1..Len(rows) :
        /\ Readable(rows[i])
        /\ \A j \in 1..i - 1 : Readable(rows[j]) => rows[j].name # rows[i].name}

\* The n-th of some places in a list.
Nth(places, n) == CHOOSE p \in places : Cardinality({q \in places : q <= p}) = n

parse_chirp_csv(rows) ==
    LET kept == Kept(rows)
    IN  [n \in 1..Cardinality(kept) |-> Preset(rows[Nth(kept, n)])]

-----------------------------------------------------------------------------
(* The list. *)

\* resolve_presets.
Valid(list) ==
    /\ \A i, j \in 1..Len(list) : list[i].name = list[j].name => i = j
    /\ \A i \in 1..Len(list) :
          /\ list[i].frequency > 0
          /\ list[i].tx # Absent => list[i].tx > 0 /\ list[i].tx # list[i].frequency

\* save_presets: an entry of the same name is replaced where it stands, the
\* others are appended in order.
Merged(list, presets) ==
    LET Names(i) == {k \in 1..Len(presets) : presets[k].name = list[i].name}
        new == {k \in 1..Len(presets) : \A i \in 1..Len(list) : k \notin Names(i)}
    IN  [i \in 1..Len(list) + Cardinality(new) |->
            IF i > Len(list) THEN presets[Nth(new, i - Len(list))]
            ELSE IF Names(i) = {} THEN list[i]
            ELSE presets[CHOOSE k \in Names(i) : TRUE]]

Start(list) == IF replace THEN << >> ELSE list

-----------------------------------------------------------------------------
(* The file. *)

Nothing == [there |-> FALSE, list |-> << >>, whole |-> TRUE]
Holds(list) == [there |-> TRUE, list |-> list, whole |-> TRUE]
Torn == [there |-> TRUE, list |-> << >>, whole |-> FALSE]

Init ==
    /\ toml \in {Holds(f) : f \in Files}
    /\ backup = Nothing
    /\ scratch = Nothing
    /\ csv = << >>
    /\ replace = FALSE
    /\ pc = "idle"
    /\ imports = 0
    /\ crashes = 0

\* main up to the validation: an export that yields nothing, and a merge
\* that the server would not start with, end it here.
Validate ==
    /\ pc = "idle"
    /\ imports < MaxImports
    /\ imports' = imports + 1
    /\ csv' \in Lists
    /\ replace' \in BOOLEAN
    /\ pc' = IF /\ parse_chirp_csv(csv') # << >>
                /\ Valid(Merged(IF replace' THEN << >> ELSE toml.list,
                                parse_chirp_csv(csv')))
             THEN "backup" ELSE "idle"
    /\ UNCHANGED <<toml, backup, scratch, crashes>>

\* A write of a file: whole, or torn by a crash.
Writes(what) == {[file |-> Holds(what), ok |-> TRUE], [file |-> Torn, ok |-> FALSE]}

Ends(write, then) ==
    IF write.ok THEN pc' = then /\ UNCHANGED crashes
    ELSE crashes < MaxCrashes /\ crashes' = crashes + 1 /\ pc' = "idle"

Backup ==
    /\ pc = "backup"
    /\ \E write \in Writes(toml.list) :
          backup' = write.file /\ Ends(write, "copy")
    /\ UNCHANGED <<toml, scratch, csv, replace, imports>>

Copy ==
    /\ pc = "copy"
    /\ \E write \in Writes(toml.list) :
          scratch' = write.file /\ Ends(write, "save")
    /\ UNCHANGED <<toml, backup, csv, replace, imports>>

Save ==
    /\ pc = "save"
    /\ \E write \in Writes(Merged(Start(scratch.list), parse_chirp_csv(csv))) :
          scratch' = write.file /\ Ends(write, "replace")
    /\ UNCHANGED <<toml, backup, csv, replace, imports>>

Replace ==
    /\ pc = "replace"
    /\ toml' = scratch
    /\ scratch' = Nothing
    /\ pc' = "idle"
    /\ UNCHANGED <<backup, csv, replace, imports, crashes>>

Crash ==
    /\ pc # "idle"
    /\ crashes < MaxCrashes
    /\ crashes' = crashes + 1
    /\ pc' = "idle"
    /\ UNCHANGED <<toml, backup, scratch, csv, replace, imports>>

Next == Validate \/ Backup \/ Copy \/ Save \/ Replace \/ Crash

Spec == Init /\ [][Next]_vars

-----------------------------------------------------------------------------
\* The exports and the lists of radio.toml are lists, and the server has
\* started with the one it has.
Listed(list) == Len(list) \in Nat /\ list = [i \in 1..Len(list) |-> list[i]]
\* Frequencies add up, and to none that stands for no frequency.
Sums(row) ==
    /\ row.frequency \in Int /\ row.offset \in Int
    /\ row.duplex \in DOMAIN Signs => Transmits(row) # Absent
ListsAssumption ==
    /\ \A list \in Lists \cup Files : Listed(list)
    /\ \A list \in Files : Valid(list)
    /\ \A list \in Lists : \A i \in 1..Len(list) : Sums(list[i])

TypeOK ==
    /\ \A f \in {toml, backup, scratch} : f.there \in BOOLEAN /\ f.whole \in BOOLEAN
    /\ csv = << >> \/ csv \in Lists
    /\ replace \in BOOLEAN
    /\ pc \in {"idle", "backup", "copy", "save", "replace"}
    /\ imports \in 0..MaxImports
    /\ crashes \in 0..MaxCrashes

\* What the row says, the way CHIRP means it: where its radio listens and
\* transmits, the tone it sends and the tone it waits for.
Means(row) ==
    [listens   |-> row.frequency,
     transmits |-> CASE row.duplex = "" -> row.frequency
                     [] row.duplex = "+" -> row.frequency + row.offset
                     [] row.duplex = "-" -> row.frequency - row.offset
                     [] OTHER -> Absent,
     sends     |-> CASE row.tone = "" -> 0
                     [] row.tone = "TSQL" -> row.cTone
                     [] OTHER -> row.rTone]

\* Every preset of an import is the meaning of one row of the export, and a
\* station tuned to it is heard by the repeater of that row.
NothingIsGuessed ==
    LET presets == parse_chirp_csv(csv) IN
    \A k \in 1..Len(presets) :
        \E i \in 1..Len(csv) :
            /\ presets[k].name = csv[i].name
            /\ Means(csv[i]) =
                 [listens   |-> presets[k].frequency,
                  transmits |-> IF presets[k].tx = Absent THEN presets[k].frequency
                                ELSE presets[k].tx,
                  sends     |-> presets[k].txTone]

\* At every moment, and after any crash, radio.toml is a whole file with a
\* list that the server starts with.
TheStationStarts == toml.there /\ toml.whole /\ Valid(toml.list)

\* An import keeps every entry it does not name, in place, unless it was
\* told to replace the list.
KeepsTheOthers ==
    ~replace =>
        \A i \in 1..Len(toml.list) :
            \/ toml'.list[i] = toml.list[i]
            \/ \E k \in 1..Len(parse_chirp_csv(csv)) :
                  parse_chirp_csv(csv)[k].name = toml.list[i].name
OthersStay == [][KeepsTheOthers]_vars

\* What an import has made is what it validated, up to the replacement.
Merges == Merged(Start(toml.list), parse_chirp_csv(csv))
UnderWay ==
    /\ pc # "idle" => Valid(Merges)
    /\ pc = "save" => scratch = Holds(toml.list)
    /\ pc = "replace" => scratch = Holds(Merges)

IInv ==
    /\ Listed(csv) /\ Listed(toml.list) /\ (csv = << >> \/ csv \in Lists)
    /\ pc \in {"idle", "backup", "copy", "save", "replace"}
    /\ TheStationStarts /\ UnderWay
=============================================================================
