--------------------------- MODULE TxKeyingProofs ---------------------------
(***************************************************************************)
(* TLAPS proofs about TxKeying for any number of browsers, Mumble bridges  *)
(* and D-STAR bridges, and any set of faults.                              *)
(*                                                                         *)
(* The keying calls are composed as functions of the keying state, so the  *)
(* argument is in two layers: each call maps a good keying state to good   *)
(* ones and touches no session but its caller's (the lemmas), and each     *)
(* step moves its talker so that the slot, the scopes and the keyed set    *)
(* still agree (the invariance of IInv).                                   *)
(***************************************************************************)
EXTENDS TxKeying, TLAPS

Lines == {"low", "talker", "rest"}
RadioType == [keyed : SUBSET Talkers, tx : BOOLEAN, line : Lines]

\* The keying state is coherent.
GoodRadio(r) ==
    /\ r \in RadioType
    /\ \A t, u \in r.keyed : t = u
    /\ r.keyed # {} => r.tx
    /\ "ptt_off" \notin Faults =>
          /\ r.tx => r.keyed # {}
          /\ r.line = "talker" => r.keyed # {}

\* The inductive invariant.
IInv ==
    /\ TypeOK
    /\ GoodRadio(Radio)
    /\ SlotMatchesScopes
    /\ KeyedInsideScope

-----------------------------------------------------------------------------
(* TxSession.close: whether or not ptt(False) raises, the keying state     *)
(* stays coherent and no other session is touched.                         *)
LEMMA CloseIsGood ==
    ASSUME NEW r, GoodRadio(r), NEW t \in Talkers, NEW c \in CloseOutcomes(r, t)
    PROVE  /\ GoodRadio(c)
           /\ c.keyed = r.keyed \/ c.keyed = r.keyed \ {t}
           /\ c.tx = r.tx \/ c.tx = FALSE
           /\ c.keyed # {} => c.tx
<1>1. CASE t \notin r.keyed
  BY <1>1 DEF CloseOutcomes, GoodRadio
<1>2. CASE t \in r.keyed
  <2>1. CASE c = [keyed |-> r.keyed \ {t}, tx |-> FALSE, line |-> "low"]
    <3>1. r.keyed \ {t} = {}
      BY <1>2 DEF GoodRadio
    <3> QED  BY <2>1, <3>1 DEF GoodRadio, RadioType, Lines
  <2>2. CASE /\ "ptt_off" \in Faults
             /\ c \in {[r EXCEPT !.line = l] : l \in {r.line, "low"}}
    BY <2>2 DEF GoodRadio, RadioType, Lines
  <2> QED  BY <1>2, <2>1, <2>2 DEF CloseOutcomes
<1> QED  BY <1>1, <1>2

(* The end of an over: the caller's session is gone and only that one.     *)
LEMMA EndIsGood ==
    ASSUME NEW r, GoodRadio(r), NEW t \in Talkers, NEW e \in EndOutcomes(r, t)
    PROVE  GoodRadio(e) /\ e.keyed = r.keyed \ {t}
<1>1. PICK c \in CloseOutcomes(r, t) : e = [c EXCEPT !.keyed = @ \ {t}]
  BY DEF EndOutcomes
<1>2. /\ GoodRadio(c)
      /\ c.keyed = r.keyed \/ c.keyed = r.keyed \ {t}
  BY CloseIsGood
<1>3. e.keyed = c.keyed \ {t} /\ e.tx = c.tx /\ e.line = c.line /\ e \in RadioType
  BY <1>1, <1>2 DEF GoodRadio, RadioType
<1>4. e.keyed = r.keyed \ {t}
  BY <1>2, <1>3
<1>5. ASSUME "ptt_off" \notin Faults
      PROVE  /\ e.tx => e.keyed # {}
             /\ e.line = "talker" => e.keyed # {}
  <2>1. CASE t \notin r.keyed
    <3>1. c = r
      BY <2>1 DEF CloseOutcomes
    <3> QED  BY <1>5, <2>1, <3>1, <1>3, <1>4 DEF GoodRadio
  <2>2. CASE t \in r.keyed
    <3>1. c = [keyed |-> r.keyed \ {t}, tx |-> FALSE, line |-> "low"]
      BY <1>5, <2>2 DEF CloseOutcomes
    <3> QED  BY <3>1, <1>3
  <2> QED  BY <2>1, <2>2
<1> QED  BY <1>2, <1>3, <1>4, <1>5 DEF GoodRadio

(* TxSession.feed: a key-up that is refused, fails on the way or succeeds  *)
(* leaves a coherent keying state, and no session but the caller's moves.  *)
LEMMA FeedIsGood ==
    ASSUME NEW r, GoodRadio(r), NEW t \in Talkers, NEW o \in FeedOutcomes(r, t)
    PROVE  /\ GoodRadio(o.radio)
           /\ o.radio.keyed \ {t} = r.keyed \ {t}
           /\ o.exc \in {"none", "format", "arbiter"} \cup RadioErrors
           /\ t \in r.keyed => t \in o.radio.keyed
<1>1. CASE o \in {[radio |-> r, exc |-> "format"], [radio |-> r, exc |-> "none"]}
  BY <1>1
<1>2. CASE t \in r.keyed /\ o \in [radio : {r}, exc : RadioErrors]
  BY <1>2
<1>3. CASE t \notin r.keyed /\ o \in KeyUpOutcomes(r, t)
  <2> DEFINE up == [keyed |-> r.keyed \cup {t}, tx |-> TRUE, line |-> "talker"]
  <2>1. CASE r.tx
    BY <1>3, <2>1 DEF KeyUpOutcomes
  <2>2. CASE ~r.tx
    <3>1. r.keyed = {} /\ up.keyed = {t}
      BY <2>2 DEF GoodRadio
    <3>2. GoodRadio(up)
      BY <3>1 DEF GoodRadio, RadioType, Lines
    <3>3. CASE o = [radio |-> up, exc |-> "none"]
      BY <3>1, <3>2, <3>3, <1>3
    <3>4. CASE o \in [radio : {r}, exc : RadioErrors]
      BY <3>4
    <3>5. CASE o \in [radio : CloseOutcomes(up, t) \cup {up}, exc : RadioErrors]
      <4>1. /\ GoodRadio(o.radio)
            /\ o.radio.keyed = up.keyed \/ o.radio.keyed = up.keyed \ {t}
        BY <3>5, <3>2, CloseIsGood
      <4> QED  BY <4>1, <3>5, <3>1, <1>3
    <3> QED  BY <1>3, <2>2, <3>3, <3>4, <3>5 DEF KeyUpOutcomes
  <2> QED  BY <2>1, <2>2
<1> QED  BY <1>1, <1>2, <1>3 DEF FeedOutcomes

-----------------------------------------------------------------------------
(* A step of talker t keeps the invariant when it takes the slot only if   *)
(* it is free, gives back only what it holds, and is keyed only where its  *)
(* scope will un-key it.                                                   *)
LEMMA TalkerMoves ==
    ASSUME IInv, NEW t \in Talkers, NEW r, GoodRadio(r), Becomes(r),
           r.keyed \ {t} = keyed \ {t},
           NEW p, Goto(t, p),
           t \in Browsers => p \in BrowserPc,
           t \in Relays => p \in RelayPc,
           t \in Dstars => p \in DstarPc,
           held' \subseteq Dstars, held' \ {t} = held \ {t},
           \/ slot' = slot
           \/ slot = NoTalker /\ slot' = t
           \/ slot = t /\ slot' = NoTalker,
           slot' = t <=> (IF t \in Dstars THEN t \in held' ELSE p \in InScope),
           t \in r.keyed => p \in {"frames", "stalled", "closing"},
           t \in r.keyed /\ t \notin Dstars => slot' = t
    PROVE  IInv'
<1>1. TypeOK /\ GoodRadio(Radio) /\ SlotMatchesScopes /\ KeyedInsideScope
  BY DEF IInv
<1>2. /\ pc' = [pc EXCEPT ![t] = p]
      /\ pc \in [Talkers -> BrowserPc \cup RelayPc \cup DstarPc]
  BY <1>1 DEF Goto, TypeOK
<1>3. pc'[t] = p /\ \A u \in Talkers \ {t} : pc'[u] = pc[u]
  BY <1>2
<1>4. /\ Browsers \subseteq Talkers /\ Relays \subseteq Talkers
      /\ Dstars \subseteq Talkers /\ NoTalker \notin Talkers
  BY TalkersAssumption DEF Talkers
<1>5. keyed' = r.keyed /\ transmitting' = r.tx /\ line' = r.line /\ r \in RadioType
  BY DEF Becomes, GoodRadio
<1>6. TypeOK'
  <2>1. keyed' \subseteq Talkers /\ transmitting' \in BOOLEAN /\ line' \in Lines
    BY <1>5 DEF RadioType
  <2>2. slot' \in Talkers \cup {NoTalker}
    BY <1>1 DEF TypeOK
  <2>3. p \in BrowserPc \cup RelayPc \cup DstarPc
    BY DEF Talkers
  <2>4. pc' \in [Talkers -> BrowserPc \cup RelayPc \cup DstarPc]
    BY <1>2, <2>3
  <2>5. /\ \A b \in Browsers : pc'[b] \in BrowserPc
        /\ \A m \in Relays : pc'[m] \in RelayPc
        /\ \A d \in Dstars : pc'[d] \in DstarPc
    BY <1>1, <1>3, <1>4 DEF TypeOK
  <2> QED  BY <2>1, <2>2, <2>4, <2>5 DEF TypeOK, Lines
<1>7. GoodRadio(Radio)'
  <2>1. Radio' = [keyed |-> r.keyed, tx |-> r.tx, line |-> r.line]
    BY <1>5 DEF Radio
  <2>2. Radio' = r
    BY <1>5, <2>1 DEF RadioType
  <2> QED  BY <2>2 DEF GoodRadio
<1>8. SlotMatchesScopes'
  <2> SUFFICES ASSUME NEW u \in Talkers
               PROVE  slot' = u <=> Holds(u)'
    BY DEF SlotMatchesScopes
  <2>1. CASE u = t
    BY <2>1, <1>3 DEF Holds
  <2>2. CASE u # t
    <3>1. Holds(u)' <=> Holds(u)
      BY <2>2, <1>3 DEF Holds
    <3>2. slot' = u <=> slot = u
      BY <2>2, <1>4
    <3> QED  BY <3>1, <3>2, <1>1 DEF SlotMatchesScopes
  <2> QED  BY <2>1, <2>2
<1>9. KeyedInsideScope'
  <2> SUFFICES ASSUME NEW u \in keyed'
               PROVE  /\ pc'[u] \in {"frames", "stalled", "closing"}
                      /\ u \notin Dstars => slot' = u
    BY DEF KeyedInsideScope
  <2>0. u \in Talkers
    BY <1>5 DEF RadioType
  <2>1. CASE u = t
    BY <2>1, <1>3, <1>5
  <2>2. CASE u # t
    <3>1. u \in keyed /\ pc'[u] = pc[u]
      BY <2>0, <2>2, <1>3, <1>5
    <3>2. slot = u => slot' = u
      BY <2>0, <2>2, <1>4
    <3> QED  BY <3>1, <3>2, <1>1 DEF KeyedInsideScope
  <2> QED  BY <2>1, <2>2
<1> QED  BY <1>6, <1>7, <1>8, <1>9 DEF IInv

-----------------------------------------------------------------------------
LEMMA InitGood == Init => IInv
<1> SUFFICES ASSUME Init PROVE IInv
  OBVIOUS
<1>1. TypeOK
  BY TalkersAssumption DEF Init, TypeOK, Talkers, BrowserPc, RelayPc, DstarPc
<1>2. GoodRadio(Radio)
  BY DEF Init, GoodRadio, Radio, RadioType, Lines
<1>3. SlotMatchesScopes
  BY TalkersAssumption DEF Init, SlotMatchesScopes, Holds, InScope, Talkers
<1>4. KeyedInsideScope
  BY DEF Init, KeyedInsideScope
<1> QED  BY <1>1, <1>2, <1>3, <1>4 DEF IInv

(* What IInv says of one talker, in the form the steps use.                *)
LEMMA Facts ==
    ASSUME IInv
    PROVE  /\ GoodRadio(Radio) /\ Radio.keyed = keyed
           /\ keyed \subseteq Talkers /\ held \subseteq Dstars
           /\ slot \in Talkers \cup {NoTalker}
           /\ NoTalker \notin Talkers
           /\ Browsers \subseteq Talkers /\ Relays \subseteq Talkers
           /\ Dstars \subseteq Talkers
           /\ \A t \in Talkers : slot = t <=> Holds(t)
           /\ \A t \in keyed : /\ pc[t] \in {"frames", "stalled", "closing"}
                               /\ t \notin Dstars => slot = t
BY TalkersAssumption
   DEF IInv, TypeOK, SlotMatchesScopes, KeyedInsideScope, Radio, Talkers

(* The keying state is left alone: a special case of TalkerMoves.          *)
LEMMA SilentMove ==
    ASSUME IInv, NEW t \in Talkers, UNCHANGED <<radioVars, held>>,
           NEW p, Goto(t, p),
           t \in Browsers => p \in BrowserPc,
           t \in Relays => p \in RelayPc,
           t \in Dstars => p \in DstarPc,
           \/ slot' = slot
           \/ slot = NoTalker /\ slot' = t
           \/ slot = t /\ slot' = NoTalker,
           slot' = t <=> (IF t \in Dstars THEN t \in held ELSE p \in InScope),
           t \in keyed => p \in {"frames", "stalled", "closing"},
           t \in keyed /\ t \notin Dstars => slot' = t
    PROVE  IInv'
<1>1. GoodRadio(Radio) /\ held \subseteq Dstars
  BY Facts
<1>2. PICK r : r = Radio
  OBVIOUS
<1>3. Becomes(r) /\ r.keyed = keyed /\ GoodRadio(r)
  BY <1>1, <1>2 DEF Becomes, Radio, radioVars
<1>4. held' = held
  OBVIOUS
<1> QED  BY <1>1, <1>3, <1>4, TalkerMoves

(* A talker that owns the slot and ends its over, going to p.              *)
LEMMA OwnerLeaves ==
    ASSUME IInv, NEW t \in Browsers \cup Relays, slot = t,
           NEW r, GoodRadio(r), r.keyed \ {t} = keyed \ {t},
           \E e \in EndOutcomes(r, t) : Becomes(e),
           Release, UNCHANGED held,
           NEW p \in {"off", "idle"}, Goto(t, p),
           t \in Browsers => p = "off"
    PROVE  IInv'
<1>1. t \in Talkers /\ t \notin Dstars /\ NoTalker # t
  BY TalkersAssumption DEF Talkers
<1>2. PICK e \in EndOutcomes(r, t) : Becomes(e)
  OBVIOUS
<1>3. GoodRadio(e) /\ e.keyed = r.keyed \ {t}
  BY <1>1, EndIsGood
<1>4. e.keyed \ {t} = keyed \ {t} /\ t \notin e.keyed
  BY <1>3
<1>5. held' \subseteq Dstars /\ held' \ {t} = held \ {t}
  BY Facts
<1>6. slot' = NoTalker
  BY DEF Release
<1>7. p \notin InScope /\ p \in RelayPc /\ (p = "off" => p \in BrowserPc)
  BY DEF InScope, RelayPc, BrowserPc
<1> QED  BY <1>1, <1>2, <1>3, <1>4, <1>5, <1>6, <1>7, TalkersAssumption, TalkerMoves

\* A fed payload after which the talker is still in its scope.
LEMMA FedAndStays ==
    ASSUME IInv, NEW t \in Browsers \cup Relays, slot = t,
           NEW o \in FeedOutcomes(Radio, t), Becomes(o.radio),
           NEW p \in {"frames", "closing"}, Goto(t, p),
           t \in Relays => p = "frames",
           UNCHANGED <<slot, held>>
    PROVE  IInv'
<1>1. t \in Talkers /\ t \notin Dstars
  BY TalkersAssumption DEF Talkers
<1>2. GoodRadio(o.radio) /\ o.radio.keyed \ {t} = keyed \ {t}
  BY <1>1, Facts, FeedIsGood
<1>3. PICK r : r = o.radio
  OBVIOUS
<1>4. GoodRadio(r) /\ r.keyed \ {t} = keyed \ {t} /\ Becomes(r)
  BY <1>2, <1>3
<1>5. held' \subseteq Dstars /\ held' \ {t} = held \ {t} /\ slot' = slot
  BY Facts
<1>6. p \in InScope /\ p \in BrowserPc /\ (p = "frames" => p \in RelayPc)
  BY DEF InScope, BrowserPc, RelayPc
<1> QED  BY <1>1, <1>4, <1>5, <1>6, TalkerMoves

-----------------------------------------------------------------------------
LEMMA BrowserKeepsInv ==
    ASSUME IInv, NEW b \in Browsers, BrowserStep(b)
    PROVE  IInv'
<1>1. b \in Talkers /\ b \notin Dstars /\ b \notin Relays
  BY TalkersAssumption DEF Talkers
<1>2. slot = b <=> pc[b] \in InScope
  BY <1>1, Facts DEF Holds
<1>3. /\ b \in keyed => pc[b] \in {"frames", "stalled", "closing"}
      /\ GoodRadio(Radio) /\ Radio.keyed = keyed /\ NoTalker # b
  BY <1>1, Facts
<1>4. CASE Connect(b)
  BY <1>1, <1>2, <1>3, <1>4, SilentMove
     DEF Connect, TryAcquire, InScope, BrowserPc, Goto
<1>5. CASE RefusedLeaves(b)
  BY <1>1, <1>2, <1>3, <1>5, SilentMove
     DEF RefusedLeaves, InScope, BrowserPc, Goto
<1>6. CASE Ready(b)
  BY <1>1, <1>2, <1>3, <1>6, SilentMove DEF Ready, InScope, BrowserPc, Goto
<1>7. CASE HandshakeFails(b)
  BY <1>1, <1>2, <1>3, <1>7, SilentMove
     DEF HandshakeFails, Release, InScope, BrowserPc, Goto
<1>8. ASSUME NEW r, GoodRadio(r), r.keyed \ {b} = keyed \ {b},
             BrowserExit(b, r), slot = b
      PROVE  IInv'
  BY <1>8, OwnerLeaves DEF BrowserExit
<1>9. CASE BrowserFeeds(b)
  <2>1. slot = b
    BY <1>2, <1>9 DEF BrowserFeeds, InScope
  <2>2. PICK o \in FeedOutcomes(Radio, b) :
           \/ /\ Becomes(o.radio) /\ UNCHANGED <<slot, held>>
              /\ Goto(b, "frames") \/ Goto(b, "closing")
           \/ BrowserExit(b, o.radio)
    BY <1>9 DEF BrowserFeeds
  <2>3. CASE /\ Becomes(o.radio) /\ UNCHANGED <<slot, held>>
             /\ Goto(b, "frames") \/ Goto(b, "closing")
    BY <1>1, <2>1, <2>3, FedAndStays
  <2>4. CASE BrowserExit(b, o.radio)
    <3>1. GoodRadio(o.radio) /\ o.radio.keyed \ {b} = keyed \ {b}
      BY <1>1, <1>3, FeedIsGood
    <3>2. PICK r : r = o.radio
      OBVIOUS
    <3> QED  BY <3>1, <3>2, <2>1, <2>4, <1>8
  <2> QED  BY <2>2, <2>3, <2>4
<1>10. CASE BrowserIdles(b) \/ BrowserFinishes(b) \/ BrowserHangsUp(b)
  <2>1. slot = b /\ BrowserExit(b, Radio)
    BY <1>2, <1>10 DEF BrowserIdles, BrowserFinishes, BrowserHangsUp, InScope
  <2>2. PICK r : r = Radio
    OBVIOUS
  <2> QED  BY <2>1, <2>2, <1>3, <1>8
<1> QED  BY <1>4, <1>5, <1>6, <1>7, <1>9, <1>10 DEF BrowserStep

LEMMA RelayKeepsInv ==
    ASSUME IInv, NEW m \in Relays, RelayStep(m)
    PROVE  IInv'
<1>1. m \in Talkers /\ m \notin Dstars /\ m \notin Browsers
  BY TalkersAssumption DEF Talkers
<1>2. slot = m <=> pc[m] \in InScope
  BY <1>1, Facts DEF Holds
<1>3. /\ m \in keyed => pc[m] \in {"frames", "stalled", "closing"}
      /\ GoodRadio(Radio) /\ Radio.keyed = keyed /\ NoTalker # m
  BY <1>1, Facts
<1>4. CASE RelayStarts(m)
  BY <1>1, <1>2, <1>3, <1>4, SilentMove DEF RelayStarts, InScope, RelayPc, Goto
<1>5. CASE RelayClaims(m)
  BY <1>1, <1>2, <1>3, <1>5, SilentMove
     DEF RelayClaims, TryAcquire, InScope, RelayPc, Goto
<1>6. ASSUME NEW r, GoodRadio(r), r.keyed \ {m} = keyed \ {m}, slot = m,
             NEW p \in {"off", "idle"}, RelayEndSession(m, r, p)
      PROVE  IInv'
  BY <1>1, <1>6, OwnerLeaves DEF RelayEndSession
<1>7. CASE RelayFeeds(m)
  <2>1. slot = m
    BY <1>2, <1>7 DEF RelayFeeds, InScope
  <2>2. PICK o \in FeedOutcomes(Radio, m) :
           \/ Becomes(o.radio) /\ Goto(m, "frames") /\ UNCHANGED <<slot, held>>
           \/ RelayEndSession(m, o.radio, "idle")
    BY <1>7 DEF RelayFeeds
  <2>3. CASE Becomes(o.radio) /\ Goto(m, "frames") /\ UNCHANGED <<slot, held>>
    BY <1>1, <2>1, <2>3, FedAndStays
  <2>4. CASE RelayEndSession(m, o.radio, "idle")
    <3>1. GoodRadio(o.radio) /\ o.radio.keyed \ {m} = keyed \ {m}
      BY <1>1, <1>3, FeedIsGood
    <3>2. PICK r : r = o.radio
      OBVIOUS
    <3> QED  BY <3>1, <3>2, <2>1, <2>4, <1>6
  <2> QED  BY <2>2, <2>3, <2>4
<1>8. CASE RelayHangs(m) \/ RelayYields(m)
  <2>1. slot = m /\ RelayEndSession(m, Radio, "idle")
    BY <1>2, <1>8 DEF RelayHangs, RelayYields, InScope
  <2>2. PICK r : r = Radio
    OBVIOUS
  <2> QED  BY <2>1, <2>2, <1>3, <1>6
<1>9. CASE RelayStops(m)
  <2>1. CASE pc[m] = "idle" /\ Goto(m, "off") /\ UNCHANGED <<slot, radioVars, held>>
    BY <1>1, <1>2, <1>3, <2>1, SilentMove DEF InScope, RelayPc, Goto
  <2>2. CASE /\ pc[m] \in {"lockout", "frames", "stalled"}
             /\ RelayEndSession(m, Radio, "off")
    <3>1. slot = m
      BY <1>2, <2>2 DEF InScope
    <3>2. PICK r : r = Radio
      OBVIOUS
    <3> QED  BY <3>1, <3>2, <2>2, <1>3, <1>6
  <2> QED  BY <1>9, <2>1, <2>2 DEF RelayStops
<1> QED  BY <1>4, <1>5, <1>7, <1>8, <1>9 DEF RelayStep

-----------------------------------------------------------------------------
LEMMA DstarKeepsInv ==
    ASSUME IInv, NEW d \in Dstars, DstarStep(d)
    PROVE  IInv'
<1>1. /\ d \in Talkers /\ d \notin Relays /\ d \notin Browsers /\ NoTalker # d
      /\ NoTalker \notin Talkers
  BY TalkersAssumption DEF Talkers
<1>2. slot = d <=> d \in held
  BY <1>1, Facts DEF Holds
<1>3. /\ d \in keyed => pc[d] \in {"frames", "stalled", "closing"}
      /\ GoodRadio(Radio) /\ Radio.keyed = keyed /\ held \subseteq Dstars
  BY <1>1, Facts
<1>4. CASE DstarStarts(d)
  BY <1>1, <1>2, <1>3, <1>4, SilentMove DEF DstarStarts, DstarPc, Goto, radioVars
\* Every end of an over: the slot is released if and only if it is owned.
<1>5. ASSUME NEW r, GoodRadio(r), r.keyed \ {d} = keyed \ {d},
             \E e \in EndOutcomes(r, d) : Becomes(e),
             NEW p \in {"off", "idle"}, Goto(d, p), held' = held \ {d},
             \/ slot = d /\ slot' = NoTalker
             \/ slot \in {d, NoTalker} /\ slot' = NoTalker
             \/ slot # d /\ slot' = slot
      PROVE  IInv'
  <2>1. PICK e \in EndOutcomes(r, d) : Becomes(e)
    BY <1>5
  <2>2. GoodRadio(e) /\ e.keyed = r.keyed \ {d}
    BY <1>1, <1>5, EndIsGood
  <2>3. e.keyed \ {d} = keyed \ {d} /\ d \notin e.keyed
    BY <1>5, <2>2
  <2>4. held' \subseteq Dstars /\ held' \ {d} = held \ {d} /\ d \notin held'
    BY <1>3, <1>5
  <2>5. slot' # d
    BY <1>1, <1>5
  <2>6. \/ slot' = slot
        \/ slot = NoTalker /\ slot' = d
        \/ slot = d /\ slot' = NoTalker
    BY <1>5
  <2>7. p \in DstarPc
    BY DEF DstarPc
  <2>8. Goto(d, p)
    BY <1>5
  <2> QED  BY <1>1, <2>1, <2>2, <2>3, <2>4, <2>5, <2>6, <2>7, <2>8, TalkerMoves
<1>6. CASE DstarFeeds(d)
  <2> DEFINE claims == pc[d] = "idle" /\ slot = NoTalker
             owned  == claims \/ d \in held
  <2>1. PICK o \in FeedOutcomes(Radio, d) :
           \/ /\ Becomes(o.radio)
              /\ slot' = IF claims THEN d ELSE slot
              /\ held' = IF claims THEN held \cup {d} ELSE held
              /\ Goto(d, "frames")
           \/ DstarEndRx(d, o.radio, owned)
    BY <1>6 DEF DstarFeeds
  <2>2. GoodRadio(o.radio) /\ o.radio.keyed \ {d} = keyed \ {d}
    BY <1>1, <1>3, FeedIsGood
  <2>3. PICK r : r = o.radio
    OBVIOUS
  <2>4. CASE /\ Becomes(o.radio)
             /\ slot' = IF claims THEN d ELSE slot
             /\ held' = IF claims THEN held \cup {d} ELSE held
             /\ Goto(d, "frames")
    <3>1. held' \subseteq Dstars /\ held' \ {d} = held \ {d}
      BY <1>3, <2>4
    <3>2. slot' = d <=> d \in held'
      BY <1>1, <1>2, <2>4
    <3>3. slot' = slot \/ (slot = NoTalker /\ slot' = d)
      BY <2>4
    <3>4. GoodRadio(r) /\ r.keyed \ {d} = keyed \ {d} /\ Becomes(r)
      BY <2>2, <2>3, <2>4
    <3>5. Goto(d, "frames")
      BY <2>4
    <3> QED  BY <1>1, <3>1, <3>2, <3>3, <3>4, <3>5, TalkerMoves DEF DstarPc
  <2>5. CASE DstarEndRx(d, o.radio, owned)
    <3>1. /\ \E e \in EndOutcomes(r, d) : Becomes(e)
          /\ Goto(d, "idle") /\ held' = held \ {d}
      BY <2>3, <2>5 DEF DstarEndRx
    <3>2. \/ slot \in {d, NoTalker} /\ slot' = NoTalker
          \/ slot # d /\ slot' = slot
      BY <1>2, <2>5 DEF DstarEndRx
    <3> QED  BY <2>2, <2>3, <3>1, <3>2, <1>5
  <2> QED  BY <2>1, <2>4, <2>5
<1>7. CASE DstarEnds(d)
  <2>1. PICK r : r = Radio
    OBVIOUS
  <2>2. /\ \E e \in EndOutcomes(r, d) : Becomes(e)
        /\ Goto(d, "idle") /\ held' = held \ {d}
        /\ slot' = IF d \in held THEN NoTalker ELSE slot
    BY <1>7, <2>1 DEF DstarEnds, DstarEndRx
  <2>3. \/ slot = d /\ slot' = NoTalker
        \/ slot # d /\ slot' = slot
    BY <1>2, <2>2
  <2> QED  BY <1>3, <2>1, <2>2, <2>3, <1>5
<1>8. CASE DstarStops(d)
  <2>1. PICK e \in EndOutcomes(Radio, d), l \in {"low", line} :
           Becomes([e EXCEPT !.line = IF l = "low" THEN "low" ELSE e.line])
    BY <1>8 DEF DstarStops
  <2>2. PICK r : r = [e EXCEPT !.line = IF l = "low" THEN "low" ELSE e.line]
    OBVIOUS
  <2>3. GoodRadio(e) /\ e.keyed = keyed \ {d}
    BY <1>1, <1>3, EndIsGood
  <2>4. GoodRadio(r) /\ r.keyed = keyed \ {d} /\ Becomes(r)
    BY <2>1, <2>2, <2>3 DEF GoodRadio, RadioType, Lines
  <2>5. /\ Goto(d, "off") /\ held' = held \ {d}
        /\ slot' = IF d \in held THEN NoTalker ELSE slot
    BY <1>8 DEF DstarStops
  <2>6. /\ held' \subseteq Dstars /\ held' \ {d} = held \ {d} /\ d \notin held'
        /\ slot' # d
        /\ slot' = slot \/ (slot = d /\ slot' = NoTalker)
    BY <1>1, <1>2, <1>3, <2>5
  <2>7. d \notin r.keyed /\ r.keyed \ {d} = keyed \ {d} /\ "off" \in DstarPc
    BY <2>4 DEF DstarPc
  <2> QED  BY <1>1, <2>4, <2>5, <2>6, <2>7, TalkerMoves
<1> QED  BY <1>4, <1>6, <1>7, <1>8 DEF DstarStep

LEMMA WaitKeepsInv ==
    ASSUME IInv, NEW t \in Talkers, AwaitTxReady(t) \/ Stalls(t)
    PROVE  IInv'
<1>1. slot = t <=> (IF t \in Dstars THEN t \in held ELSE pc[t] \in InScope)
  BY Facts DEF Holds
<1>2. /\ t \in keyed /\ t \notin Dstars => slot = t
      /\ pc[t] = "frames"
  BY Facts DEF AwaitTxReady, Stalls
<1>3. CASE AwaitTxReady(t)
  <2>1. t \notin Dstars
    BY <1>3, TalkersAssumption DEF AwaitTxReady
  <2> QED  BY <1>1, <1>2, <1>3, <2>1, SilentMove
              DEF AwaitTxReady, InScope, BrowserPc, RelayPc, Goto
<1>4. CASE Stalls(t)
  BY <1>1, <1>2, <1>4, SilentMove
     DEF Stalls, InScope, BrowserPc, RelayPc, DstarPc, Goto
<1> QED  BY <1>3, <1>4

(* POST /ptt and the timer move the line only, and never to "talker".      *)
LEMMA LineKeepsInv ==
    ASSUME IInv, TimeOutTimer \/ (\E on \in BOOLEAN : RestPtt(on))
    PROVE  IInv'
<1>1. /\ UNCHANGED <<slot, transmitting, keyed, pc, held>>
      /\ line' \in {"low", "rest", line}
  BY DEF TimeOutTimer, RestPtt
<1>2. TypeOK' /\ SlotMatchesScopes' /\ KeyedInsideScope'
  BY <1>1 DEF IInv, TypeOK, SlotMatchesScopes, KeyedInsideScope, Holds
<1>3. GoodRadio(Radio)'
  BY <1>1 DEF IInv, GoodRadio, Radio, RadioType, Lines
<1> QED  BY <1>2, <1>3 DEF IInv

LEMMA StepGood == IInv /\ [Next]_vars => IInv'
<1> SUFFICES ASSUME IInv, [Next]_vars PROVE IInv'
  OBVIOUS
<1>1. ASSUME NEW b \in Browsers, BrowserStep(b) PROVE IInv'
  BY <1>1, BrowserKeepsInv
<1>2. ASSUME NEW m \in Relays, RelayStep(m) PROVE IInv'
  BY <1>2, RelayKeepsInv
<1>3. ASSUME NEW d \in Dstars, DstarStep(d) PROVE IInv'
  BY <1>3, DstarKeepsInv
<1>4. ASSUME NEW t \in Talkers, AwaitTxReady(t) \/ Stalls(t) PROVE IInv'
  BY <1>4, WaitKeepsInv
<1>5. CASE TimeOutTimer \/ (\E on \in BOOLEAN : RestPtt(on))
  BY <1>5, LineKeepsInv
<1>6. CASE UNCHANGED vars
  <2>1. Radio' = Radio
    BY <1>6 DEF vars, Radio
  <2> QED  BY <1>6, <2>1 DEF vars, IInv, TypeOK, SlotMatchesScopes, Holds,
                            KeyedInsideScope, GoodRadio
<1> QED  BY <1>1, <1>2, <1>3, <1>4, <1>5, <1>6 DEF Next

-----------------------------------------------------------------------------
(* Slot and keying discipline, for every set of talkers and of faults.     *)
THEOREM TypeCorrect == Spec => []TypeOK
<1>1. IInv => TypeOK
  BY DEF IInv
<1> QED  BY <1>1, InitGood, StepGood, PTL DEF Spec

(* The slot is never leaked and never stolen: TxSlot.release, which asks   *)
(* nobody, is only ever called by the holder.                              *)
THEOREM SlotIsSafe == Spec => []SlotMatchesScopes
<1>1. IInv => SlotMatchesScopes
  BY DEF IInv
<1> QED  BY <1>1, InitGood, StepGood, PTL DEF Spec

(* One stream at a time is keyed, and the receive side stands down for it. *)
THEOREM OneOverAtATime == Spec => [](OneKeyedTalker /\ LatchCoversKeyed)
<1>1. IInv => OneKeyedTalker /\ LatchCoversKeyed
  BY DEF IInv, GoodRadio, Radio, OneKeyedTalker, LatchCoversKeyed
<1> QED  BY <1>1, InitGood, StepGood, PTL DEF Spec

\* The receive side stands down before the line is raised, and comes back after.
COROLLARY ReceiveStandsDown == Spec => []LatchCoversKeyed
BY OneOverAtATime, PTL

(* Keying happens only inside the scope that will un-key.                  *)
THEOREM KeyedIsInsideScope == Spec => []KeyedInsideScope
<1>1. IInv => KeyedInsideScope
  BY DEF IInv
<1> QED  BY <1>1, InitGood, StepGood, PTL DEF Spec

(* With a ptt(False) that never raises, neither the receive side nor the   *)
(* carrier is ever left to nobody.                                         *)
THEOREM NobodyIsStranded ==
    "ptt_off" \notin Faults => (Spec => [](LatchHasKeyer /\ CarrierHasKeyer))
<1> SUFFICES ASSUME "ptt_off" \notin Faults
             PROVE  Spec => [](LatchHasKeyer /\ CarrierHasKeyer)
  OBVIOUS
<1>1. IInv => LatchHasKeyer /\ CarrierHasKeyer
  BY DEF IInv, GoodRadio, Radio, LatchHasKeyer, CarrierHasKeyer
<1> QED  BY <1>1, InitGood, StepGood, PTL DEF Spec

\* No over leaves its carrier behind: a raised line belongs to a keyed session.
COROLLARY NoCarrierIsStranded ==
    "ptt_off" \notin Faults => (Spec => []CarrierHasKeyer)
BY NobodyIsStranded, PTL

-----------------------------------------------------------------------------
(* A call by a talker that is not keyed leaves a claimed radio alone.      *)
LEMMA BystanderEnds ==
    ASSUME NEW r, GoodRadio(r), NEW t, t \notin r.keyed,
           NEW e \in EndOutcomes(r, t)
    PROVE  e = r
<1>1. e = [r EXCEPT !.keyed = @ \ {t}]
  BY DEF EndOutcomes, CloseOutcomes
<1>2. r.keyed \ {t} = r.keyed
  OBVIOUS
<1> QED  BY <1>1, <1>2 DEF GoodRadio, RadioType

LEMMA BystanderFeeds ==
    ASSUME NEW r, GoodRadio(r), NEW t, t \notin r.keyed, r.tx,
           NEW o \in FeedOutcomes(r, t)
    PROVE  o.radio = r
BY DEF FeedOutcomes, KeyUpOutcomes

\* What a step of talker t may do to the keying state.
OwnDoing(t) ==
    \/ UNCHANGED <<keyed, transmitting>>
    \/ /\ keyed' \ {t} = keyed \ {t}
       /\ t \in keyed \/ ~transmitting
       /\ t \in keyed \ keyed' => pc'[t] # pc[t]

LEMMA EndIsOwnDoing ==
    ASSUME IInv, NEW t \in Talkers, NEW r, GoodRadio(r),
           \/ r = Radio
           \/ \E o \in FeedOutcomes(Radio, t) : r = o.radio,
           NEW e \in EndOutcomes(r, t), keyed' = e.keyed, transmitting' = e.tx,
           NEW p, Goto(t, p), p # pc[t]
    PROVE  OwnDoing(t)
<1>1. GoodRadio(Radio) /\ Radio.keyed = keyed /\ Radio.tx = transmitting
  BY Facts DEF Radio
<1>2. pc'[t] = p
  BY DEF Goto, IInv, TypeOK
<1>3. e.keyed = r.keyed \ {t}
  BY EndIsGood
<1>4. r.keyed \ {t} = keyed \ {t}
  BY <1>1, FeedIsGood
<1>5. CASE t \in keyed \/ ~transmitting
  BY <1>2, <1>3, <1>4, <1>5 DEF OwnDoing
<1>6. CASE t \notin keyed /\ transmitting
  <2>1. r = Radio
    BY <1>1, <1>6, BystanderFeeds
  <2>2. e = Radio
    BY <1>1, <1>6, <2>1, BystanderEnds
  <2> QED  BY <1>1, <2>2 DEF OwnDoing
<1> QED  BY <1>5, <1>6

LEMMA FeedIsOwnDoing ==
    ASSUME IInv, NEW t \in Talkers, NEW o \in FeedOutcomes(Radio, t),
           Becomes(o.radio)
    PROVE  OwnDoing(t)
<1>1. GoodRadio(Radio) /\ Radio.keyed = keyed /\ Radio.tx = transmitting
  BY Facts DEF Radio
<1>2. /\ o.radio.keyed \ {t} = keyed \ {t}
      /\ t \in keyed => t \in o.radio.keyed
  BY <1>1, FeedIsGood
<1>3. keyed' = o.radio.keyed /\ transmitting' = o.radio.tx
  BY DEF Becomes
<1>4. CASE t \in keyed \/ ~transmitting
  BY <1>2, <1>3, <1>4 DEF OwnDoing
<1>5. CASE t \notin keyed /\ transmitting
  <2>1. o.radio = Radio
    BY <1>1, <1>5, BystanderFeeds
  <2> QED  BY <1>1, <1>3, <2>1 DEF OwnDoing
<1> QED  BY <1>4, <1>5

LEMMA StepsAreOwnDoing ==
    ASSUME IInv, Next
    PROVE  \/ UNCHANGED <<keyed, transmitting>>
           \/ \E t \in Talkers : OwnDoing(t)
<1>1. /\ Browsers \subseteq Talkers /\ Relays \subseteq Talkers
      /\ Dstars \subseteq Talkers
      /\ GoodRadio(Radio)
  BY Facts
<1>2. ASSUME NEW b \in Browsers, NEW r, BrowserExit(b, r), GoodRadio(r),
             \/ r = Radio
             \/ \E o \in FeedOutcomes(Radio, b) : r = o.radio,
             pc[b] # "off"
      PROVE  OwnDoing(b)
  BY <1>1, <1>2, EndIsOwnDoing DEF BrowserExit, Becomes
<1>3. ASSUME NEW b \in Browsers, BrowserStep(b)
      PROVE  UNCHANGED <<keyed, transmitting>> \/ OwnDoing(b)
  <2>1. CASE \/ Connect(b) \/ RefusedLeaves(b) \/ Ready(b) \/ HandshakeFails(b)
    BY <2>1 DEF Connect, RefusedLeaves, Ready, HandshakeFails, radioVars
  <2>2. CASE BrowserFeeds(b)
    <3>1. PICK o \in FeedOutcomes(Radio, b) :
             Becomes(o.radio) \/ BrowserExit(b, o.radio)
      BY <2>2 DEF BrowserFeeds
    <3>2. CASE Becomes(o.radio)
      BY <1>1, <3>2, FeedIsOwnDoing
    <3>3. CASE BrowserExit(b, o.radio)
      <4>1. PICK r : r = o.radio
        OBVIOUS
      <4>2. GoodRadio(o.radio)
        BY <1>1, FeedIsGood
      <4> QED  BY <4>1, <4>2, <3>3, <2>2, <1>2 DEF BrowserFeeds
    <3> QED  BY <3>1, <3>2, <3>3
  <2>3. CASE BrowserIdles(b) \/ BrowserFinishes(b) \/ BrowserHangsUp(b)
    <3>1. PICK r : r = Radio
      OBVIOUS
    <3> QED  BY <1>1, <1>2, <2>3, <3>1
             DEF BrowserIdles, BrowserFinishes, BrowserHangsUp
  <2> QED  BY <1>3, <2>1, <2>2, <2>3 DEF BrowserStep
<1>4. ASSUME NEW m \in Relays, NEW r, NEW p, RelayEndSession(m, r, p),
             GoodRadio(r),
             \/ r = Radio
             \/ \E o \in FeedOutcomes(Radio, m) : r = o.radio,
             pc[m] # p
      PROVE  OwnDoing(m)
  BY <1>1, <1>4, EndIsOwnDoing DEF RelayEndSession, Becomes
<1>5. ASSUME NEW m \in Relays, RelayStep(m)
      PROVE  UNCHANGED <<keyed, transmitting>> \/ OwnDoing(m)
  <2>0. PICK rr : rr = Radio
    OBVIOUS
  <2>1. CASE RelayStarts(m) \/ RelayClaims(m)
    BY <2>1 DEF RelayStarts, RelayClaims, radioVars
  <2>2. CASE RelayFeeds(m)
    <3>1. PICK o \in FeedOutcomes(Radio, m) :
             Becomes(o.radio) \/ RelayEndSession(m, o.radio, "idle")
      BY <2>2 DEF RelayFeeds
    <3>2. CASE Becomes(o.radio)
      BY <1>1, <3>2, FeedIsOwnDoing
    <3>3. CASE RelayEndSession(m, o.radio, "idle")
      <4>1. PICK r : r = o.radio
        OBVIOUS
      <4>2. GoodRadio(o.radio)
        BY <1>1, FeedIsGood
      <4> QED  BY <4>1, <4>2, <3>3, <2>2, <1>4 DEF RelayFeeds
    <3> QED  BY <3>1, <3>2, <3>3
  <2>3. CASE RelayHangs(m) \/ RelayYields(m)
    BY <1>1, <1>4, <2>0, <2>3 DEF RelayHangs, RelayYields
  <2>4. CASE RelayStops(m)
    BY <1>1, <1>4, <2>0, <2>4 DEF RelayStops, radioVars
  <2> QED  BY <1>5, <2>1, <2>2, <2>3, <2>4 DEF RelayStep
<1>6. ASSUME NEW d \in Dstars, DstarStep(d)
      PROVE  UNCHANGED <<keyed, transmitting>> \/ OwnDoing(d)
  <2>0. PICK rr : rr = Radio
    OBVIOUS
  <2>1. CASE DstarStarts(d)
    BY <2>1 DEF DstarStarts, radioVars
  <2>2. CASE DstarFeeds(d)
    <3>1. PICK o \in FeedOutcomes(Radio, d) :
             \/ Becomes(o.radio)
             \/ /\ \E e \in EndOutcomes(o.radio, d) : Becomes(e)
                /\ Goto(d, "idle") /\ o.exc \in RadioErrors
      BY <2>2 DEF DstarFeeds, DstarEndRx
    <3>2. CASE Becomes(o.radio)
      BY <1>1, <3>2, FeedIsOwnDoing
    <3>3. CASE /\ \E e \in EndOutcomes(o.radio, d) : Becomes(e)
               /\ Goto(d, "idle") /\ o.exc \in RadioErrors
      <4>1. PICK e \in EndOutcomes(o.radio, d) : Becomes(e)
        BY <3>3
      <4>2. GoodRadio(o.radio)
        BY <1>1, FeedIsGood
      <4>3. CASE pc[d] # "idle"
        <5>1. PICK r : r = o.radio
          OBVIOUS
        <5> QED  BY <1>1, <3>3, <4>1, <4>2, <4>3, <5>1, EndIsOwnDoing
                 DEF Becomes
      <4>4. CASE pc[d] = "idle"
        <5>1. d \notin keyed /\ Radio.keyed = keyed /\ Radio.tx = transmitting
          BY <4>4, Facts DEF Radio
        <5>2. e.keyed = keyed
          <6>1. e.keyed = o.radio.keyed \ {d}
            BY <1>1, <4>2, EndIsGood
          <6>2. o.radio.keyed \ {d} = keyed \ {d}
            BY <1>1, <5>1, FeedIsGood
          <6>3. keyed \ {d} = keyed
            BY <5>1
          <6> QED  BY <6>1, <6>2, <6>3
        <5>3. CASE ~transmitting
          BY <4>1, <5>2, <5>3 DEF Becomes, OwnDoing
        <5>4. CASE transmitting
          <6>1. o.radio = Radio
            BY <1>1, <5>1, <5>4, BystanderFeeds
          <6>2. e = Radio
            BY <1>1, <5>1, <6>1, BystanderEnds
          <6> QED  BY <4>1, <5>1, <6>2 DEF Becomes
        <5> QED  BY <5>3, <5>4
      <4> QED  BY <4>3, <4>4
    <3> QED  BY <3>1, <3>2, <3>3
  <2>3. CASE DstarEnds(d)
    <3>1. PICK e \in EndOutcomes(rr, d) : Becomes(e)
      BY <2>0, <2>3 DEF DstarEnds, DstarEndRx
    <3>2. Goto(d, "idle") /\ pc[d] # "idle"
      BY <2>3 DEF DstarEnds, DstarEndRx
    <3> QED  BY <1>1, <2>0, <3>1, <3>2, EndIsOwnDoing DEF Becomes
  <2>4. CASE DstarStops(d)
    <3>1. PICK e \in EndOutcomes(rr, d), l \in {"low", line} :
             Becomes([e EXCEPT !.line = IF l = "low" THEN "low" ELSE e.line])
      BY <2>0, <2>4 DEF DstarStops
    <3>2. e \in RadioType
      BY <1>1, <2>0, EndIsGood DEF GoodRadio
    <3>3. keyed' = e.keyed /\ transmitting' = e.tx
      BY <3>1, <3>2 DEF Becomes, RadioType
    <3>4. Goto(d, "off") /\ pc[d] # "off"
      BY <2>4 DEF DstarStops
    <3> QED  BY <1>1, <2>0, <3>1, <3>3, <3>4, EndIsOwnDoing
  <2> QED  BY <1>6, <2>1, <2>2, <2>3, <2>4 DEF DstarStep
<1>7. CASE \/ TimeOutTimer
           \/ \E on \in BOOLEAN : RestPtt(on)
           \/ \E t \in Talkers : AwaitTxReady(t) \/ Stalls(t)
  BY <1>7 DEF TimeOutTimer, RestPtt, AwaitTxReady, Stalls, radioVars
<1> QED  BY <1>1, <1>3, <1>5, <1>6, <1>7 DEF Next

(* An over is ended by its own talker only.                                *)
THEOREM OversEndByThemselves == Spec => OversEndThemselves
<1>1. IInv /\ [Next]_vars => [\A t \in keyed \ keyed' : pc'[t] # pc[t]]_vars
  <2> SUFFICES ASSUME IInv, Next, NEW t \in keyed \ keyed'
               PROVE  pc'[t] # pc[t]
    OBVIOUS
  <2>1. PICK u \in Talkers : OwnDoing(u)
    BY StepsAreOwnDoing
  <2>2. keyed' \ {u} = keyed \ {u} /\ (u \in keyed \ keyed' => pc'[u] # pc[u])
    BY <2>1 DEF OwnDoing
  <2>3. u = t
    BY <2>2
  <2> QED  BY <2>2, <2>3
<1> QED  BY <1>1, InitGood, StepGood, PTL DEF Spec, OversEndThemselves

-----------------------------------------------------------------------------
(* The refinement of the abstract transmitter.                             *)
LEMMA OwnerOfNone == keyed = {} => Owner = NoTalker
BY DEF Owner

LEMMA OwnerOfOne ==
    ASSUME IInv, NEW t \in keyed
    PROVE  Owner = t /\ t \in Talkers /\ t # NoTalker /\ keyed = {t}
<1>1. keyed = {t} /\ keyed \subseteq Talkers /\ t # NoTalker
  BY Facts DEF IInv, GoodRadio
<1> QED  BY <1>1 DEF Owner

(* Every step of every talker starts an over from a quiet station, ends    *)
(* the one that is on, or changes neither: the slot, the arbiter and the   *)
(* sessions together are the abstract one-over transmitter.                *)
THEOREM Refinement == Spec => ImplementsTransmitter
<1>1. Init => T!Init
  BY OwnerOfNone DEF Init, T!Init
<1>2. IInv /\ IInv' /\ [Next]_vars => [T!Next]_(T!vars)
  <2> SUFFICES ASSUME IInv, IInv', [Next]_vars
               PROVE  T!Next \/ UNCHANGED <<Owner, transmitting>>
    BY DEF T!vars
  <2>1. CASE UNCHANGED <<keyed, transmitting>>
    BY <2>1 DEF Owner
  <2>2. ASSUME NEW t \in Talkers, OwnDoing(t), ~UNCHANGED <<keyed, transmitting>>
        PROVE  T!Next \/ UNCHANGED <<Owner, transmitting>>
    <3>1. keyed' \ {t} = keyed \ {t} /\ (t \in keyed \/ ~transmitting)
      BY <2>2 DEF OwnDoing
    <3>2. /\ keyed # {} => transmitting
          /\ keyed' # {} => transmitting'
          /\ "ptt_off" \notin Faults => (transmitting' => keyed' # {})
          /\ transmitting \in BOOLEAN /\ transmitting' \in BOOLEAN
      BY DEF IInv, GoodRadio, Radio, TypeOK
    <3>3. NoTalker \notin Talkers
      BY TalkersAssumption
    <3>4. \A u \in keyed : Owner = u /\ u # NoTalker /\ keyed = {u}
      BY OwnerOfOne
    <3>5. \A u \in keyed' : Owner' = u /\ u # NoTalker /\ keyed' = {u}
      <4>1. ASSUME NEW u \in keyed' PROVE Owner' = u /\ u # NoTalker /\ keyed' = {u}
        <5>1. keyed' = {u} /\ keyed' \subseteq Talkers /\ u # NoTalker
          BY <3>3 DEF IInv, GoodRadio, Radio, RadioType
        <5> QED  BY <5>1 DEF Owner
      <4> QED  BY <4>1
    <3>6. (keyed = {} => Owner = NoTalker) /\ (keyed' = {} => Owner' = NoTalker)
      BY DEF Owner
    <3>7. CASE keyed = {}
      <4>1. ~transmitting
        BY <3>1, <3>7
      <4>2. CASE keyed' = {}
        BY <2>2, <3>2, <3>6, <3>7, <4>1, <4>2 DEF T!Next, T!Strand
      <4>3. CASE keyed' # {}
        <5>1. t \in keyed'
          BY <3>1, <3>7, <4>3
        <5> QED  BY <3>2, <3>5, <3>6, <3>7, <4>1, <5>1 DEF T!Next, T!KeyUp
      <4> QED  BY <4>2, <4>3
    <3>8. CASE keyed # {}
      <4>1. transmitting /\ t \in keyed /\ Owner = t /\ Owner # NoTalker
        BY <3>1, <3>2, <3>4, <3>8
      <4>2. keyed = {t}
        BY <3>4, <4>1
      <4>3. CASE keyed' = {}
        BY <3>2, <3>6, <4>1, <4>3 DEF T!Next, T!KeyDown, T!Strand
      <4>4. CASE keyed' # {}
        BY <2>2, <3>1, <3>2, <4>1, <4>2, <4>4
      <4> QED  BY <4>3, <4>4
    <3> QED  BY <3>7, <3>8
  <2>3. CASE UNCHANGED vars
    BY <2>1, <2>3 DEF vars
  <2>4. CASE Next
    BY <2>1, <2>2, <2>4, StepsAreOwnDoing
  <2> QED  BY <2>3, <2>4
<1> QED  BY <1>1, <1>2, InitGood, StepGood, PTL
         DEF Spec, ImplementsTransmitter, T!Spec
=============================================================================
