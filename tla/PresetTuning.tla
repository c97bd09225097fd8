---------------------------- MODULE PresetTuning ----------------------------
(***************************************************************************)
(* Who tunes the radio: a preset (presets.py) field by field on a worker   *)
(* thread, the single-field routes on theirs, a scan on the loop; and the  *)
(* overs that must not move meanwhile (api/app.py).                        *)
(***************************************************************************)
EXTENDS Naturals, FiniteSets, Sequences

CONSTANTS
    Tables,      \* the [[presets]] tables of a configuration, as written
    Scanned,     \* channels a scan goes through
    Caps,        \* what the radio offers: a subset of {"split", "tone", "power"}
    Appliers,    \* requests that apply a preset
    Overlaps,    \* something else may be asked while a preset is applied
    InBand,      \* frequencies the radio accepts
    MaxRequests  \* bound on the requests

VARIABLES
    radio,    \* freq, tx, tone, power
    job,      \* where each request to apply a preset is
    scan,     \* a scan is running
    keyed,    \* an over is on the air
    requests  \* requests so far

vars == <<radio, job, scan, keyed, requests>>

None == 0
Fields == <<"freq", "tx", "tone", "power">>
CapOf == [tx |-> "split", tone |-> "tone", power |-> "power"]

(***************************************************************************)
(* resolve_presets(): a table is a preset, or the configuration is refused. *)
(***************************************************************************)

Accepted(t) ==
    /\ t.freq > 0 /\ t.tx # t.freq

\* Presets: names are unique whatever their case.
resolve_presets(ts) ==
    IF \A t \in ts : Accepted(t) /\ \A u \in ts : t.name = u.name => t = u THEN ts ELSE {}

Presets == resolve_presets(Tables)

Init ==
    /\ radio \in {[freq |-> f, tx |-> None, tone |-> None, power |-> None] : f \in Scanned}
    /\ job = [j \in Appliers |-> [at |-> "idle", preset |-> None, field |-> 1]]
    /\ scan = FALSE /\ keyed = None /\ requests = 0

Applying == \E j \in Appliers : job[j].at \in {"stopping", "fields", "applied"}
MayAsk == requests < MaxRequests /\ (Applying => Overlaps)
Asked == requests' = requests + 1

\* Tuning clears the split, on every backend.
Tuned(r, field, v) ==
    IF field = "freq" THEN [r EXCEPT !.freq = v, !.tx = None] ELSE [r EXCEPT ![field] = v]

(***************************************************************************)
(* POST /presets/apply                                                     *)
(***************************************************************************)

apply_preset_route(j) ==
    /\ job[j].at = "idle" /\ MayAsk /\ Asked
    /\ \E p \in Presets :
          job' = [job EXCEPT ![j] =
                     [at |-> IF keyed # None THEN "refused" ELSE IF scan THEN "stopping" ELSE "fields",
                      preset |-> p, field |-> 1]]
    /\ UNCHANGED <<radio, scan, keyed>>

Stopped(j) ==
    /\ job[j].at = "stopping" /\ scan' = FALSE
    /\ job' = [job EXCEPT ![j].at = "fields"]
    /\ UNCHANGED <<radio, keyed, requests>>

\* A setter is called where the radio has it, and the power only when the preset
\* has one; a value outside the band ends the application where it is.
Calls(p, field) ==
    CASE field = "freq" -> TRUE
      [] field = "power" -> CapOf[field] \in Caps /\ p.power # None
      [] OTHER -> CapOf[field] \in Caps

Refuses(p, field) == field \in {"freq", "tx"} /\ p[field] \notin InBand \cup {None}

_apply_fields(j) ==
    /\ job[j].at = "fields" /\ job[j].field <= Len(Fields)
    /\ LET p == job[j].preset
           field == Fields[job[j].field]
       IN  IF ~Calls(p, field)
           THEN job' = [job EXCEPT ![j].field = @ + 1] /\ UNCHANGED radio
           ELSE IF Refuses(p, field)
           THEN job' = [job EXCEPT ![j].at = "invalid"] /\ UNCHANGED radio
           ELSE /\ radio' = Tuned(radio, field, p[field])
                /\ job' = [job EXCEPT ![j].field = @ + 1]
    /\ UNCHANGED <<scan, keyed, requests>>

Applied(j) ==
    /\ job[j].at = "fields" /\ job[j].field > Len(Fields)
    /\ job' = [job EXCEPT ![j].at = "applied"]
    /\ UNCHANGED <<radio, scan, keyed, requests>>

Answered(j) ==
    /\ job[j].at \in {"applied", "refused", "invalid"}
    /\ job' = [job EXCEPT ![j] = [at |-> "idle", preset |-> None, field |-> 1]]
    /\ UNCHANGED <<radio, scan, keyed, requests>>

(***************************************************************************)
(* The single-field routes, the scan and the overs.                        *)
(***************************************************************************)

\* /frequency, /split, /tone, /power: the backend decides, the route asks nothing.
Sets ==
    /\ MayAsk /\ Asked
    /\ \E p \in Presets, field \in {"freq", "tx", "tone", "power"} :
          IF Calls(p, field) /\ ~Refuses(p, field)
          THEN radio' = Tuned(radio, field, p[field]) ELSE UNCHANGED radio
    /\ UNCHANGED <<job, scan, keyed>>

scan_route == MayAsk /\ Asked /\ ~scan /\ scan' = TRUE /\ UNCHANGED <<radio, job, keyed>>

\* A scan in the middle of a dwell; it holds while the receiver has stood down.
Hops ==
    /\ scan /\ keyed = None
    /\ \E f \in Scanned \ {radio.freq} : radio' = Tuned(radio, "freq", f)
    /\ UNCHANGED <<job, scan, keyed, requests>>

scan_stop ==
    /\ scan /\ (Applying => Overlaps) /\ scan' = FALSE
    /\ UNCHANGED <<radio, job, keyed, requests>>

Keys ==
    /\ MayAsk /\ Asked /\ keyed = None /\ keyed' = radio.freq
    /\ UNCHANGED <<radio, job, scan>>

Unkeys == keyed # None /\ keyed' = None /\ UNCHANGED <<radio, job, scan, requests>>

Next ==
    \/ \E j \in Appliers :
          apply_preset_route(j) \/ Stopped(j) \/ _apply_fields(j) \/ Applied(j) \/ Answered(j)
    \/ Sets \/ scan_route \/ Hops \/ scan_stop \/ Keys \/ Unkeys

Spec == Init /\ [][Next]_vars

TypeOK ==
    /\ {radio.freq} \cup (IF keyed = None THEN {} ELSE {keyed}) \subseteq
          Scanned \cup {p.freq : p \in Presets}
    /\ \A j \in Appliers : /\ job[j].at \in {"idle", "stopping", "fields", "applied", "refused", "invalid"}
                           /\ job[j].field \in 1 .. Len(Fields) + 1
    /\ scan \in BOOLEAN /\ requests \in 0 .. MaxRequests

\* A preset that was answered as applied is what the radio is tuned to, the leg
\* it transmits on and the tone included: a simplex preset disarms the split.
AppliedIsTuned ==
    \A j \in Appliers : job[j].at = "applied" =>
        /\ radio.freq = job[j].preset.freq
        /\ "split" \in Caps => radio.tx = job[j].preset.tx
        /\ "tone" \in Caps => radio.tone = job[j].preset.tone
        /\ "power" \in Caps /\ job[j].preset.power # None => radio.power = job[j].preset.power

\* No preset moves a carrier: an application is refused while an over is on the air.
RetunesOffTheAir ==
    \A j \in Appliers :
        job[j].at = "fields" /\ job[j].field = 1 /\ job'[j].field = 2 => keyed = None
PresetsMoveNoCarrier == [][RetunesOffTheAir]_vars

\* The scan is stopped before a preset is applied, and owns the tuning until then.
ScanAndPresetApart == \A j \in Appliers : job[j].at = "fields" => ~scan

\* A preset the radio refuses leaves it as it was, or wholly on another preset.
RefusedIsNotHalfTuned ==
    [][\A j \in Appliers : job[j].at = "fields" /\ job'[j].at = "invalid" =>
          job[j].field = 1]_vars

-----------------------------------------------------------------------------
(* Why, when nothing else may be asked while a preset is applied: one is    *)
(* applied at a time, off the air, without a scan once it sets fields, and  *)
(* the fields behind it are the radio's.                                    *)
TablesAssumption ==
    /\ Scanned \subseteq Nat
    /\ \A t \in Tables : {t.freq, t.tx, t.tone, t.power} \subseteq Nat

Typed ==
    /\ radio \in [freq : Nat, tx : Nat, tone : Nat, power : Nat]
    /\ job = [j \in Appliers |-> job[j]]
    /\ \A j \in Appliers :
          job[j] \in [at : {"idle", "stopping", "fields", "applied", "refused", "invalid"},
                     preset : {job[j].preset}, field : 1 .. 5]

InHand(j) == job[j].at \in {"stopping", "fields", "applied"}
OneApplies == \A i, j \in Appliers : InHand(i) /\ InHand(j) => i = j
SetSoFar(j) ==
    LET p == job[j].preset
    IN  /\ p \in Presets /\ (job[j].at = "stopping" => job[j].field = 1)
        /\ keyed = None
        /\ job[j].at # "stopping" =>
              /\ ~scan /\ (job[j].at = "applied" => job[j].field = 5)
              /\ job[j].field > 1 => radio.freq = p.freq
              /\ job[j].field > 2 /\ "split" \in Caps => radio.tx = p.tx
              /\ job[j].field > 3 /\ "tone" \in Caps => radio.tone = p.tone
              /\ job[j].field > 4 /\ "power" \in Caps /\ p.power # None => radio.power = p.power

IInv == Typed /\ OneApplies /\ (\A j \in Appliers : InHand(j) => SetSoFar(j))
=============================================================================
