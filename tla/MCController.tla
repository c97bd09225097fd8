---------------------------- MODULE MCController ----------------------------
(* Instances of Controller for TLC.                                        *)
EXTENDS Controller

CONSTANTS c0, c1

\* Two codes in turn, each for two steps of the clock.
MCCodeAt(n) == IF n % 4 < 2 THEN c0 ELSE c1

\* What tells two states apart: `did` only tells of the step that led to a
\* state; every step writes it afresh and no guard reads it, so the steps from
\* two states that differ in it are the same.  The properties over `did` are
\* about steps, each of which TLC checks.
View == <<now, auth, last, consumed, sent, lastId, enforce, wired, ledger,
          idAt, lapsed, used>>
=============================================================================
