------------------------- MODULE MemoryValue_proofs -------------------------
(***************************************************************************)
(* Operator memory stays well formed: every call of the store maps         *)
(* memories to memories, whatever the machines, the marks and the history  *)
(* limit are.                                                              *)
(***************************************************************************)
EXTENDS MemoryValue, TLAPS


\* appendCapped keeps histories histories: a sequence within the cap stays
\* within the cap, and the newest item is its last.
LEMMA AppendCappedType ==
  ASSUME NEW S, NEW items \in History(S), NEW item \in S
  PROVE  AppendCapped(items, item) \in History(S)
<1> DEFINE all == Append(items, item)
<1>1. all \in Seq(S) /\ Len(all) = Len(items) + 1
  BY DEF History
<1>2. CASE Len(all) <= HistoryLimit
  BY <1>1, <1>2 DEF AppendCapped, History
<1>3. CASE Len(all) > HistoryLimit
  <2> DEFINE from == Len(all) - HistoryLimit + 1
  <2>1. from \in 1 .. Len(all) + 1 /\ Len(all) \in Nat
    BY <1>1, <1>3, HistoryLimitAssumption
  <2>2. SubSeq(all, from, Len(all)) \in Seq(S)
    BY <1>1, <2>1
  <2>3. Len(SubSeq(all, from, Len(all))) = HistoryLimit
    BY <1>1, <1>3, <2>1, HistoryLimitAssumption
  <2>4. AppendCapped(items, item) = SubSeq(all, from, Len(all))
    BY <1>1, <1>3, <2>1, HistoryLimitAssumption DEF AppendCapped
  <2>5. HistoryLimit <= HistoryLimit
    BY HistoryLimitAssumption
  <2>6. QED
    BY <2>2, <2>3, <2>4, <2>5 DEF History
<1>4. QED
  BY <1>1, <1>2, <1>3, HistoryLimitAssumption

\* What operator memory holds of a machine before anything is saved.
LEMMA EmptyOverlayType == EmptyOverlay \in Overlays
<1>1. <<>> \in History(Obs) /\ <<>> \in History(Session)
  BY HistoryLimitAssumption DEF History
<1>2. QED
  BY <1>1, NothingSavedAssumption DEF EmptyOverlay, Overlays

LEMMA EmptyMemoryType == EmptyMemory \in Memories
  BY EmptyOverlayType, NothingSavedAssumption DEF EmptyMemory, Memories

\* RecordHealth and RecordSession keep an overlay an overlay.
LEMMA WithHealthType ==
  ASSUME NEW overlay \in Overlays, NEW obs \in Obs
  PROVE  WithHealth(overlay, obs) \in Overlays
<1>1. AppendCapped(overlay.checks, obs) \in History(Obs)
  BY AppendCappedType DEF Overlays
<1>2. QED
  BY <1>1 DEF WithHealth, Overlays

LEMMA WithSessionType ==
  ASSUME NEW overlay \in Overlays, NEW session \in Session
  PROVE  WithSession(overlay, session) \in Overlays
<1>1. AppendCapped(overlay.sessions, session) \in History(Session)
  BY AppendCappedType DEF Overlays
<1>2. overlay.connects \in Nat /\ overlay.connects + 1 \in Nat
  BY DEF Overlays
<1>3. CASE session.success
  BY <1>1, <1>2, <1>3 DEF WithSession, Overlays
<1>4. CASE ~session.success
  BY <1>1, <1>2, <1>4 DEF WithSession, Overlays
<1>5. QED
  BY <1>3, <1>4

\* Every call maps memories to memories, the cap on histories included.
LEMMA EffectType ==
  ASSUME NEW mem \in Memories, NEW r \in Loads \cup Updates
  PROVE  Effect(mem, r) \in Memories
<1>1. CASE r \in Loads
  BY <1>1 DEF Loads, Effect
<1>2. CASE r \in [op : {"SaveOverlay"}, id : Machine, overlay : Overlays]
  <2>1. Effect(mem, r) = [mem EXCEPT !.overlays[r.id] = r.overlay]
    BY <1>2 DEF Effect
  <2>2. QED
    BY <1>2, <2>1 DEF Memories
<1>3. CASE r \in [op : {"SavePreferences"}, prefs : Prefs]
  <2>1. Effect(mem, r) = [mem EXCEPT !.prefs = r.prefs]
    BY <1>3 DEF Effect
  <2>2. QED
    BY <1>3, <2>1 DEF Memories
<1>4. CASE r \in [op : {"RecordHealth"}, id : Machine, obs : Obs]
  <2> DEFINE old == mem.overlays[r.id]
  <2>1. old \in Overlays
    BY <1>4 DEF Memories
  <2>2. WithHealth(old, r.obs) \in Overlays
    BY <1>4, <2>1, WithHealthType
  <2>3. Effect(mem, r) = [mem EXCEPT !.overlays[r.id] = WithHealth(@, r.obs)]
    BY <1>4 DEF Effect
  <2>4. QED
    BY <1>4, <2>2, <2>3 DEF Memories
<1>5. CASE r \in [op : {"RecordSession"}, id : Machine, session : Session]
  <2> DEFINE old == mem.overlays[r.id]
  <2>1. old \in Overlays
    BY <1>5 DEF Memories
  <2>2. WithSession(old, r.session) \in Overlays
    BY <1>5, <2>1, WithSessionType
  <2>3. Effect(mem, r) = [mem EXCEPT !.overlays[r.id] = WithSession(@, r.session)]
    BY <1>5 DEF Effect
  <2>4. QED
    BY <1>5, <2>2, <2>3 DEF Memories
<1>6. QED
  BY <1>1, <1>2, <1>3, <1>4, <1>5 DEF Updates

=============================================================================
