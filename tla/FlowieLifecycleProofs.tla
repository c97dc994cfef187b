------------------------ MODULE FlowieLifecycleProofs ------------------------
(***************************************************************************)
(* The life of a session, for every number of connections and of faults:   *)
(* what the repository holds is what a restart would restore, and a Will   *)
(* is handed to the graph once unless recording it failed.                 *)
(***************************************************************************)
EXTENDS FlowieLifecycle, FiniteSetTheorems, TLAPS

\* What is known of the owner: its generation counts CONNECTs, only a session that was
\* opened has one, an active one has no Will pending, and a bound connection makes it active.
OwnerOK ==
    /\ session_owner.generation <= connects /\ session_owner.will <= connects
    /\ session_owner # NoSession => session_owner.generation >= 1
    /\ session_owner.active => ~session_owner.pending
    /\ bound # 0 => session_owner.active
    /\ bound <= connects

\* Row and owner describe the same session.
RowCurrent ==
    /\ session_owner = NoSession => row = NoRow
    /\ row = RowOf(session_owner, row.ended)

\* An armed Will deadline belongs to the pending Will of the session as it is.
DeadlineOK ==
    /\ will_deadline.at # "none" => session_owner.pending
    /\ expiry_deadline.at # "none" => session_owner # NoSession /\ ~session_owner.active

\* Who has published what: a Will that may still be published either was not published or
\* could not be recorded; a graceful connection's Will is gone; the connection that is bound
\* has published nothing, and no Will but its own is in the owner.
WillsOK ==
    /\ \A c \in Connection :
         /\ will_published[c] > 1 => c \in unrecorded
         /\ will_published[c] > 0 /\ session_owner.will = c => c \in unrecorded
         /\ c \in graceful => will_published[c] = 0 /\ session_owner.will # c
         /\ c > connects => will_published[c] = 0 /\ c \notin graceful
         /\ c = bound => will_published[c] = 0
    /\ bound # 0 => session_owner.will \in {0, bound}

LifeInv == LifeTypeOK /\ OwnerOK /\ RowCurrent /\ DeadlineOK /\ WillsOK

Row == [generation: 0..MaxConnects, will: 0..MaxConnects, pending: BOOLEAN,
        expiry: {"zero", "finite", "never"}, ended: BOOLEAN]

-----------------------------------------------------------------------------
(* Facts the steps share *)

\* The absent session, its row and the unarmed deadline are well-typed.
LEMMA Absent ==
    /\ NoSession \in OwnerType /\ NoRow \in Row /\ NoDeadline \in DeadlineType
    /\ NoRow = RowOf(NoSession, NoRow.ended)
    /\ ~NoSession.active /\ ~NoSession.pending /\ NoSession.will = 0 /\ NoSession.generation = 0
    /\ NoDeadline.at = "none"
BY LifecycleAssumption DEF NoSession, NoRow, RowOf, NoDeadline, OwnerType, Row, DeadlineType

\* A row made of a well-typed owner is well-typed and describes it.
LEMMA RowFacts ==
    ASSUME NEW o \in OwnerType, NEW ended \in BOOLEAN
    PROVE  /\ RowOf(o, ended) \in Row
           /\ RowOf(o, ended).ended = ended
           /\ RowOf(o, ended) = RowOf(o, RowOf(o, ended).ended)
BY DEF OwnerType, Row, RowOf

\* What a session that was removed leaves.
LEMMA RemovedFacts ==
    ASSUME RemoveSession
    PROVE  /\ session_owner' \in OwnerType /\ row' \in Row
           /\ will_deadline' \in DeadlineType /\ expiry_deadline' \in DeadlineType
           /\ ~session_owner'.active /\ ~session_owner'.pending
           /\ session_owner'.will = 0 /\ session_owner'.generation = 0
           /\ session_owner' = NoSession /\ RowCurrent' /\ DeadlineOK'
BY Absent DEF RemoveSession, RowCurrent, DeadlineOK

\* Counting a fault keeps the count within its bound.
LEMMA FaultCount ==
    ASSUME NEW kinds \in SUBSET {"connect", "disconnect", "close", "dispatch", "complete", "delete", "restart"},
           life_faults \in 0..MaxLifeFaults, Fails(kinds)
    PROVE  life_faults' \in 0..MaxLifeFaults
<1> DEFINE all == {"connect", "disconnect", "close", "dispatch", "complete", "delete", "restart"}
<1>1. IsFiniteSet({"connect", "disconnect", "close"})
  <2>1. IsFiniteSet({"connect", "disconnect"})
    <3>1. IsFiniteSet({"connect"} \union {"disconnect"})
      BY FS_Singleton, FS_AddElement, Zenon
    <3> QED BY <3>1, {"connect", "disconnect"} = {"connect"} \union {"disconnect"}
  <2> QED BY <2>1, FS_AddElement,
             {"connect", "disconnect", "close"} = {"connect", "disconnect"} \union {"close"}
<1>2. IsFiniteSet(all)
  <2>1. IsFiniteSet({"connect", "disconnect", "close"} \union {"dispatch"})
    BY <1>1, FS_AddElement
  <2>2. IsFiniteSet(({"connect", "disconnect", "close"} \union {"dispatch"}) \union {"complete"})
    BY <2>1, FS_AddElement
  <2>3. IsFiniteSet((({"connect", "disconnect", "close"} \union {"dispatch"}) \union {"complete"})
                      \union {"delete"})
    BY <2>2, FS_AddElement
  <2>4. IsFiniteSet(((({"connect", "disconnect", "close"} \union {"dispatch"}) \union {"complete"})
                      \union {"delete"}) \union {"restart"})
    BY <2>3, FS_AddElement
  <2>5. all = (((({"connect", "disconnect", "close"} \union {"dispatch"}) \union {"complete"})
                      \union {"delete"}) \union {"restart"})
    OBVIOUS
  <2> QED BY <2>4, <2>5
<1>3. IsFiniteSet(kinds)
  BY <1>2, FS_Subset, Zenon
<1>4. Cardinality(kinds) \in Nat
  BY <1>3, FS_CardinalityType
<1> QED BY <1>4, LifecycleAssumption DEF Fails

\* The initial state.
LEMMA LifeInitInv == LifeInit => LifeInv
<1> SUFFICES ASSUME LifeInit PROVE LifeInv
  OBVIOUS
<1>1. LifeTypeOK
  <2>1. session_owner \in OwnerType /\ (session_owner.pending => session_owner.will # 0)
    BY Absent DEF LifeInit
  <2>2. row \in Row /\ will_deadline \in DeadlineType /\ expiry_deadline \in DeadlineType
    BY Absent DEF LifeInit
  <2>3. /\ bound \in 0..MaxConnects /\ fenced \subseteq Connection
        /\ connects \in 0..MaxConnects /\ life_faults \in 0..MaxLifeFaults
    BY LifecycleAssumption DEF LifeInit
  <2>6. closing \in BOOLEAN
    BY Zenon DEF LifeInit
  <2>4. will_published \in [Connection -> 0..2]
    BY DEF LifeInit
  <2>5. \A s \in {graceful, abnormal, unrecorded} : s \subseteq Connection
    BY DEF LifeInit
  <2> QED BY <2>1, <2>2, <2>3, <2>4, <2>5, <2>6 DEF LifeTypeOK, Row
<1>2. OwnerOK /\ RowCurrent /\ DeadlineOK
  BY Absent DEF LifeInit, OwnerOK, RowCurrent, DeadlineOK
<1>3. WillsOK
  BY Absent DEF LifeInit, WillsOK, Connection
<1> QED BY <1>1, <1>2, <1>3 DEF LifeInv

-----------------------------------------------------------------------------
(* One lemma for each action *)

\* CONNECT opens the next generation, with a Will nobody has published.
LEMMA ConnectStep ==
    ASSUME LifeInv, NEW has_will \in BOOLEAN, NEW expiry \in Expiries, client_connect(has_will, expiry)
    PROVE  LifeInv'
<1> USE LifecycleAssumption
<1> DEFINE next == connects + 1
<1>0. LifeTypeOK /\ OwnerOK /\ RowCurrent /\ DeadlineOK /\ WillsOK
  BY DEF LifeInv
<1>1. /\ connects \in Nat /\ connects < MaxConnects /\ connects' = next /\ next \in Connection
      /\ session_owner \in OwnerType
      /\ UNCHANGED <<graceful, will_published, unrecorded>>
  BY <1>0 DEF client_connect, LifeTypeOK, Connection
<1>2. CASE /\ Fails({}) /\ session_owner' = Opened(IF has_will THEN connects' ELSE 0, expiry)
           /\ row' = RowOf(session_owner', FALSE)
           /\ fenced' = (IF bound = 0 THEN fenced ELSE fenced \union {bound})
           /\ bound' = connects' /\ closing' = FALSE
           /\ will_deadline' = NoDeadline /\ expiry_deadline' = NoDeadline /\ abnormal' = {}
  <2>1. fenced' \subseteq Connection
    BY <1>0, <1>2 DEF LifeTypeOK, Connection
  <2>2. /\ session_owner' \in OwnerType /\ session_owner'.active /\ ~session_owner'.pending
        /\ session_owner'.generation = session_owner.generation + 1
        /\ session_owner'.will \in {0, next}
    BY <1>0, <1>1, <1>2 DEF Opened, OwnerType, OwnerOK
  <2>3. session_owner' # NoSession
    BY <2>2, Absent
  <2>4. row' \in Row /\ row' = RowOf(session_owner', row'.ended)
    BY <1>2, <2>2, RowFacts, Zenon
  <2>5. life_faults' \in 0..MaxLifeFaults
    BY <1>0, <1>2, FaultCount DEF LifeTypeOK
  <2>6. LifeTypeOK'
    <3>1. closing' \in BOOLEAN
      BY <1>2, Zenon
    <3>2. bound' \in 0..MaxConnects /\ connects' \in 0..MaxConnects
      BY <1>1, <1>2
    <3>3. \A s \in {graceful', abnormal', unrecorded'} : s \subseteq Connection
      BY <1>0, <1>1, <1>2 DEF LifeTypeOK
    <3>4. will_deadline' \in DeadlineType /\ expiry_deadline' \in DeadlineType
      BY <1>2, Absent
    <3>5. will_published' \in [Connection -> 0..2]
      BY <1>0, <1>1 DEF LifeTypeOK
    <3> QED BY <2>1, <2>2, <2>4, <2>5, <3>1, <3>2, <3>3, <3>4, <3>5 DEF LifeTypeOK, Row
  <2>7. OwnerOK'
    BY <1>0, <1>1, <1>2, <2>2 DEF OwnerOK, OwnerType
  <2>8. RowCurrent' /\ DeadlineOK'
    BY <1>2, <2>3, <2>4, Absent, Zenon DEF RowCurrent, DeadlineOK
  <2>9. WillsOK'
    BY <1>0, <1>1, <1>2, <2>2 DEF WillsOK, LifeTypeOK, Connection
  <2> QED BY <2>6, <2>7, <2>8, <2>9 DEF LifeInv
<1>3. CASE Fails({"connect"}) /\ UNCHANGED <<session_owner, row, bound, closing, fenced, deadlines, abnormal>>
  <2>1. life_faults' \in 0..MaxLifeFaults
    BY <1>0, <1>3, FaultCount DEF LifeTypeOK
  <2>2. LifeTypeOK'
    BY <1>0, <1>1, <1>3, <2>1 DEF LifeTypeOK, Connection, deadlines
  <2>3. OwnerOK' /\ RowCurrent' /\ DeadlineOK'
    BY <1>0, <1>1, <1>3 DEF OwnerOK, RowCurrent, DeadlineOK, deadlines, LifeTypeOK, OwnerType
  <2>4. WillsOK'
    BY <1>0, <1>1, <1>3 DEF WillsOK, LifeTypeOK, Connection
  <2> QED BY <2>2, <2>3, <2>4 DEF LifeInv
<1> QED BY <1>2, <1>3, Zenon DEF client_connect

\* DISCONNECT changes expiry and Will of a session that is bound, hence active.
LEMMA DisconnectStep ==
    ASSUME LifeInv, NEW suppress \in BOOLEAN, NEW expiry \in Expiries, disconnect(suppress, expiry)
    PROVE  LifeInv'
<1> USE LifecycleAssumption
<1>0. LifeTypeOK /\ OwnerOK /\ RowCurrent /\ DeadlineOK /\ WillsOK
  BY DEF LifeInv
<1>1. /\ bound # 0 /\ session_owner \in OwnerType /\ session_owner.active /\ ~session_owner.pending
      /\ UNCHANGED <<bound, fenced, deadlines, connects, abnormal, will_published, unrecorded>>
      /\ closing' = TRUE /\ bound \in Connection
  BY <1>0 DEF disconnect, LifeTypeOK, OwnerOK, Connection
<1>2. CASE /\ Fails({})
           /\ session_owner' = [session_owner EXCEPT !.expiry = expiry, !.will = Suppressed(suppress)]
           /\ row' = RowOf(session_owner', FALSE)
           /\ graceful' = (IF suppress THEN graceful \union {bound} ELSE graceful)
  <2>1. Suppressed(suppress) \in 0..MaxConnects /\ expiry \in {"zero", "finite", "never"}
    BY <1>1 DEF Suppressed, OwnerType
  <2>2. /\ session_owner' \in OwnerType /\ session_owner'.active /\ ~session_owner'.pending
        /\ session_owner'.generation = session_owner.generation
        /\ session_owner'.will = Suppressed(suppress)
    BY <1>1, <1>2, <2>1, Zenon DEF OwnerType
  <2>3. session_owner' # NoSession /\ session_owner # NoSession
    BY <1>1, <2>2, Absent
  <2>4. row' \in Row /\ row' = RowOf(session_owner', row'.ended)
    BY <1>2, <2>2, RowFacts, Zenon
  <2>5. LifeTypeOK'
    <3>1. closing' \in BOOLEAN
      BY <1>1
    <3>2. life_faults' \in 0..MaxLifeFaults
      BY <1>0, <1>2, FaultCount DEF LifeTypeOK
    <3>3. \A s \in {graceful', abnormal', unrecorded'} : s \subseteq Connection
      BY <1>0, <1>1, <1>2 DEF LifeTypeOK
    <3> QED BY <1>0, <1>1, <2>2, <2>4, <3>1, <3>2, <3>3 DEF LifeTypeOK, Row, deadlines
  <2>6. OwnerOK'
    BY <1>0, <1>1, <2>2, <2>3 DEF OwnerOK, OwnerType, Suppressed, LifeTypeOK
  <2>7. RowCurrent' /\ DeadlineOK'
    BY <1>0, <1>1, <2>2, <2>3, <2>4 DEF RowCurrent, DeadlineOK, deadlines
  <2>8. WillsOK'
    BY <1>0, <1>1, <1>2, <2>2 DEF WillsOK, OwnerOK, LifeTypeOK, Connection, Suppressed
  <2> QED BY <2>5, <2>6, <2>7, <2>8 DEF LifeInv
<1>3. CASE Fails({"disconnect"}) /\ UNCHANGED <<session_owner, row, graceful>>
  <2>1. LifeTypeOK'
    <3>1. closing' \in BOOLEAN
      BY <1>1
    <3>2. life_faults' \in 0..MaxLifeFaults
      BY <1>0, <1>3, FaultCount DEF LifeTypeOK
    <3> QED BY <1>0, <1>1, <1>3, <3>1, <3>2 DEF LifeTypeOK, deadlines
  <2>2. OwnerOK' /\ RowCurrent' /\ DeadlineOK'
    BY <1>0, <1>1, <1>3 DEF OwnerOK, RowCurrent, DeadlineOK, deadlines
  <2>3. WillsOK'
    BY <1>0, <1>1, <1>3 DEF WillsOK
  <2> QED BY <2>1, <2>2, <2>3 DEF LifeInv
<1> QED BY <1>2, <1>3, Zenon DEF disconnect

\* A deadline that is armed for the session as it is.
LEMMA ArmedFacts ==
    ASSUME session_owner \in OwnerType, NEW o \in OwnerType
    PROVE  /\ expiry_arm(o) \in DeadlineType /\ will_arm(o) \in DeadlineType
           /\ will_arm(o).at # "none" => o.pending
BY Absent, SMTT(60) DEF expiry_arm, will_arm, Deadline, DeadlineType, OwnerType

\* session_close_schedule on a session that is active: closed, removed, or left as it is.
LEMMA CloseFacts ==
    ASSUME LifeInv, session_owner.active, close_schedule
    PROVE  /\ session_owner' \in OwnerType /\ row' \in Row
           /\ will_deadline' \in DeadlineType /\ expiry_deadline' \in DeadlineType
           /\ session_owner'.pending => session_owner'.will # 0
           /\ session_owner'.active => ~session_owner'.pending
           /\ session_owner'.will \in {0, session_owner.will}
           /\ session_owner'.generation \in {0, session_owner.generation}
           /\ session_owner' # NoSession => session_owner'.generation >= 1
           /\ RowCurrent' /\ DeadlineOK'
           /\ life_faults' \in 0..MaxLifeFaults
           /\ "close" \notin LifeFaults => ~session_owner'.active
<1>0. LifeTypeOK /\ OwnerOK /\ RowCurrent /\ DeadlineOK
  BY DEF LifeInv
<1>1. session_owner \in OwnerType /\ ~session_owner.pending /\ session_owner # NoSession
  BY <1>0, Absent DEF LifeTypeOK, OwnerOK
<1>2. CASE Fails({}) /\ RemoveSession
  <2>1. life_faults' \in 0..MaxLifeFaults
    BY <1>0, <1>2, FaultCount DEF LifeTypeOK
  <2> QED BY <1>2, <2>1, RemovedFacts
<1>3. CASE /\ Fails({}) /\ session_owner' = Closed(session_owner)
           /\ row' = RowOf(session_owner', session_owner.expiry # "never")
           /\ expiry_deadline' = expiry_arm(session_owner')
           /\ will_deadline' = will_arm(session_owner')
  <2>1. life_faults' \in 0..MaxLifeFaults
    BY <1>0, <1>3, FaultCount DEF LifeTypeOK
  <2>2. /\ session_owner' \in OwnerType /\ session_owner'.active = FALSE
        /\ session_owner'.pending = (session_owner.will # 0)
        /\ session_owner'.will = session_owner.will
        /\ session_owner'.generation = session_owner.generation
    BY <1>1, <1>3, Zenon DEF Closed, OwnerType
  <2>3. row' \in Row /\ row' = RowOf(session_owner', row'.ended)
    BY <1>3, <2>2, RowFacts, Zenon
  <2>4. /\ will_deadline' \in DeadlineType /\ expiry_deadline' \in DeadlineType
        /\ will_deadline'.at # "none" => session_owner'.pending
    BY <1>1, <1>3, <2>2, ArmedFacts
  <2>5. session_owner'.generation >= 1 /\ session_owner' # NoSession
    BY <1>0, <1>1, <2>2, Absent DEF OwnerOK
  <2> QED BY <2>1, <2>2, <2>3, <2>4, <2>5, Zenon DEF RowCurrent, DeadlineOK
<1>4. CASE Fails({"close"}) /\ UNCHANGED <<session_owner, row, deadlines>>
  <2>1. life_faults' \in 0..MaxLifeFaults
    BY <1>0, <1>4, FaultCount DEF LifeTypeOK
  <2>2. "close" \in LifeFaults
    BY <1>4 DEF Fails
  <2> QED BY <1>0, <1>1, <1>4, <2>1, <2>2 DEF LifeTypeOK, OwnerOK, RowCurrent, DeadlineOK, deadlines, Row
<1> QED BY <1>2, <1>3, <1>4 DEF close_schedule

\* The release of a connection: the session is closed only by the connection that owns it.
LEMMA ReleaseStep ==
    ASSUME LifeInv, NEW c \in Connection, connection_release(c)
    PROVE  LifeInv' /\ ("close" \notin LifeFaults => (session_owner.active = (bound # 0) =>
                                                       session_owner'.active = (bound' # 0)))
<1> USE LifecycleAssumption
<1>0. LifeTypeOK /\ OwnerOK /\ RowCurrent /\ DeadlineOK /\ WillsOK
  BY DEF LifeInv
<1>1. /\ fenced' \subseteq Connection /\ abnormal' \subseteq Connection
      /\ UNCHANGED <<connects, graceful, will_published, unrecorded>>
      /\ bound' = (IF c = bound THEN 0 ELSE bound) /\ bound' \in 0..MaxConnects
  BY <1>0 DEF connection_release, LifeTypeOK
<1>2. closing' \in BOOLEAN
  BY <1>0, Zenon DEF connection_release, LifeTypeOK
<1>3. CASE c = bound
  <2>1. close_schedule /\ session_owner.active /\ bound' = 0
    BY <1>0, <1>1, <1>3 DEF connection_release, Owns, OwnerOK, Connection
  <2>2. LifeTypeOK'
    BY <1>0, <1>1, <1>2, <2>1, CloseFacts DEF LifeTypeOK, Row
  <2>3. OwnerOK'
    BY <1>0, <1>1, <2>1, CloseFacts DEF OwnerOK, LifeTypeOK, OwnerType
  <2>4. WillsOK'
    <3>1. session_owner'.will \in {0, session_owner.will}
      BY <2>1, CloseFacts
    <3> QED BY <1>0, <1>1, <2>1, <3>1 DEF WillsOK, Connection
  <2>5. RowCurrent' /\ DeadlineOK' /\ ("close" \notin LifeFaults => ~session_owner'.active)
    BY <2>1, CloseFacts
  <2>6. session_owner' \in OwnerType
    BY <2>2 DEF LifeTypeOK
  <2> QED BY <2>1, <2>2, <2>3, <2>4, <2>5, <2>6, Zenon DEF LifeInv, OwnerType
<1>4. CASE c # bound
  <2>1. Fails({}) /\ UNCHANGED <<session_owner, row, deadlines, bound>>
    BY <1>1, <1>4 DEF connection_release, Owns
  <2>2. life_faults' \in 0..MaxLifeFaults
    BY <1>0, <2>1, FaultCount DEF LifeTypeOK
  <2>3. LifeTypeOK'
    BY <1>0, <1>1, <1>2, <2>1, <2>2 DEF LifeTypeOK, deadlines
  <2>4. OwnerOK' /\ RowCurrent' /\ DeadlineOK' /\ WillsOK'
    BY <1>0, <1>1, <2>1 DEF OwnerOK, RowCurrent, DeadlineOK, WillsOK, deadlines
  <2> QED BY <2>1, <2>3, <2>4 DEF LifeInv
<1> QED BY <1>3, <1>4

\* A deadline comes nearer.
LEMMA TickStep ==
    ASSUME LifeInv, tick_will \/ tick_expiry
    PROVE  LifeInv' /\ UNCHANGED <<session_owner, bound>>
<1>0. LifeTypeOK /\ OwnerOK /\ RowCurrent /\ DeadlineOK /\ WillsOK
  BY DEF LifeInv
<1>1. UNCHANGED <<session_owner, row, bound, closing, fenced, connects, life_faults, wills>>
  BY DEF tick_will, tick_expiry
<1>2. /\ will_deadline' \in DeadlineType /\ expiry_deadline' \in DeadlineType
      /\ will_deadline'.at # "none" => will_deadline.at # "none"
      /\ expiry_deadline'.at # "none" => expiry_deadline.at # "none"
  BY <1>0 DEF tick_will, tick_expiry, LifeTypeOK, DeadlineType
<1>3. LifeTypeOK'
  BY <1>0, <1>1, <1>2 DEF LifeTypeOK, wills
<1>4. OwnerOK' /\ RowCurrent' /\ DeadlineOK' /\ WillsOK'
  BY <1>0, <1>1, <1>2 DEF OwnerOK, RowCurrent, DeadlineOK, WillsOK, wills
<1> QED BY <1>1, <1>3, <1>4 DEF LifeInv

\* What a round of the expiry task does to the Wills: one that is sent was pending, and it
\* leaves the owner or is remembered as unrecorded.
LEMMA PublishedFacts ==
    ASSUME LifeInv, NEW bad \in SUBSET {"dispatch", "complete", "delete"},
           ~session_owner.active, expire_session(bad),
           session_owner'.will \in {0, session_owner.will},
           WillDue /\ Completes(bad) => session_owner'.will = 0,
           UNCHANGED <<bound, connects, graceful>>
    PROVE  WillsOK' /\ will_published' \in [Connection -> 0..2] /\ unrecorded' \subseteq Connection
<1> DEFINE w == session_owner.will
           sent == WillDue /\ "dispatch" \notin bad
           done == WillDue /\ Completes(bad)
<1>0. LifeTypeOK /\ OwnerOK /\ DeadlineOK /\ WillsOK
  BY DEF LifeInv
<1>1. bound = 0
  BY <1>0 DEF OwnerOK
<1>2. /\ will_published' = (IF sent THEN [will_published EXCEPT ![w] = IF @ = 2 THEN 2 ELSE @ + 1]
                                      ELSE will_published)
      /\ unrecorded' = (IF sent /\ ~done THEN unrecorded \union {w} ELSE unrecorded)
  BY DEF expire_session
<1>3. will_published \in [Connection -> 0..2] /\ unrecorded \subseteq Connection
  BY <1>0 DEF LifeTypeOK
<1>4. CASE ~sent
  <2>1. will_published' = will_published /\ unrecorded' = unrecorded
    BY <1>2, <1>4
  <2>2. \A c \in Connection : session_owner'.will = c => session_owner.will = c
    BY DEF Connection
  <2> QED BY <1>0, <1>1, <1>3, <2>1, <2>2 DEF WillsOK
<1>5. CASE sent
  <2>1. w \in Connection
    BY <1>0, <1>5 DEF WillDue, DeadlineOK, LifeTypeOK, OwnerType, Connection
  <2>2. /\ will_published' \in [Connection -> 0..2]
        /\ will_published'[w] = (IF will_published[w] = 2 THEN 2 ELSE will_published[w] + 1)
        /\ \A c \in Connection \ {w} : will_published'[c] = will_published[c]
    BY <1>2, <1>3, <1>5, <2>1
  <2>3. unrecorded' \subseteq Connection /\ unrecorded \subseteq unrecorded'
    BY <1>2, <1>3, <2>1
  <2>4. w \notin graceful /\ w <= connects
    BY <1>0, <2>1 DEF WillsOK, OwnerOK
  <2>5. will_published[w] > 0 => w \in unrecorded
    BY <1>0, <2>1 DEF WillsOK
  <2>6. session_owner'.will = w => w \in unrecorded'
    <3>1. CASE done
      BY <2>1, <3>1 DEF Connection
    <3>2. CASE ~done
      BY <1>2, <1>5, <3>2
    <3> QED BY <3>1, <3>2
  <2>7. ASSUME NEW c \in Connection
        PROVE  /\ will_published'[c] > 1 => c \in unrecorded'
               /\ will_published'[c] > 0 /\ session_owner'.will = c => c \in unrecorded'
               /\ c \in graceful => will_published'[c] = 0 /\ session_owner'.will # c
               /\ c > connects => will_published'[c] = 0 /\ c \notin graceful
    <3>1. CASE c = w
      BY <1>0, <1>3, <2>1, <2>2, <2>3, <2>4, <2>5, <2>6, <3>1, SMTT(60) DEF LifeTypeOK, Connection
    <3>2. CASE c # w
      BY <1>0, <2>2, <2>3, <3>2 DEF WillsOK, Connection
    <3> QED BY <3>1, <3>2
  <2> QED BY <1>1, <2>2, <2>3, <2>7 DEF WillsOK, Connection
<1> QED BY <1>4, <1>5

\* The expiry task: deadlines dropped, or one round on an inactive session.
LEMMA ExpiryStep ==
    ASSUME LifeInv, expiry_task
    PROVE  LifeInv' /\ UNCHANGED bound /\ session_owner'.active = session_owner.active
<1> USE LifecycleAssumption
<1>0. LifeTypeOK /\ OwnerOK /\ RowCurrent /\ DeadlineOK /\ WillsOK
  BY DEF LifeInv
<1>1. session_owner # NoSession /\ UNCHANGED <<bound, closing, fenced, connects, graceful, abnormal>>
  BY DEF expiry_task
<1>2. CASE /\ will_deadline' = NoDeadline /\ expiry_deadline' = NoDeadline
           /\ UNCHANGED <<session_owner, row, will_published, unrecorded, life_faults>>
  <2>1. LifeTypeOK'
    BY <1>0, <1>1, <1>2, Absent, SMTT(60) DEF LifeTypeOK
  <2>2. OwnerOK' /\ RowCurrent' /\ DeadlineOK' /\ WillsOK'
    BY <1>0, <1>1, <1>2, Absent DEF OwnerOK, RowCurrent, DeadlineOK, WillsOK
  <2> QED BY <1>1, <1>2, <2>1, <2>2 DEF LifeInv
<1>3. ASSUME ~session_owner.active, NEW bad \in SUBSET {"dispatch", "complete", "delete"},
             expire_session(bad)
      PROVE  LifeInv' /\ session_owner'.active = session_owner.active
  <2> DEFINE done == WillDue /\ Completes(bad)
  <2>1. life_faults' \in 0..MaxLifeFaults
    BY <1>0, <1>3, FaultCount DEF LifeTypeOK, expire_session
  <2>2. bound = 0 /\ session_owner \in OwnerType /\ session_owner.active = FALSE
    BY <1>0, <1>3 DEF OwnerOK, LifeTypeOK, OwnerType
  <2>3. /\ session_owner' \in OwnerType /\ row' \in Row
        /\ will_deadline' \in DeadlineType /\ expiry_deadline' \in DeadlineType
        /\ session_owner'.pending => session_owner'.will # 0
        /\ session_owner'.active = FALSE
        /\ session_owner'.will \in {0, session_owner.will}
        /\ done => session_owner'.will = 0
        /\ session_owner'.generation \in {0, session_owner.generation}
        /\ session_owner' # NoSession => session_owner'.generation >= 1
        /\ RowCurrent' /\ DeadlineOK'
    <3>1. CASE RemoveSession
      <4>1. session_owner' \in OwnerType /\ ~session_owner'.active
        BY <3>1, RemovedFacts
      <4>2. session_owner'.active = FALSE
        BY <4>1 DEF OwnerType
      <4> QED BY <3>1, <4>2, RemovedFacts
    <3>2. CASE /\ session_owner' = (IF done THEN [session_owner EXCEPT !.will = 0, !.pending = FALSE]
                                            ELSE session_owner)
               /\ row' = (IF done THEN RowOf(session_owner', row.ended) ELSE row)
               /\ will_deadline' = (IF done THEN NoDeadline
                                    ELSE IF WillDue THEN [will_deadline EXCEPT !.at = "later"]
                                    ELSE will_deadline)
               /\ expiry_deadline' = (IF "delete" \in bad THEN [expiry_deadline EXCEPT !.at = "later"]
                                                          ELSE expiry_deadline)
               /\ "delete" \in bad => expiry_deadline.at = "now"
      <4>1. /\ session_owner' \in OwnerType /\ session_owner'.active = FALSE
            /\ session_owner'.pending => session_owner'.will # 0
            /\ session_owner'.will \in {0, session_owner.will}
            /\ done => session_owner'.will = 0
            /\ session_owner'.generation = session_owner.generation
            /\ ~done => session_owner' = session_owner
        BY <1>0, <2>2, <3>2, Zenon DEF OwnerType, LifeTypeOK
      <4>2. /\ will_deadline' \in DeadlineType /\ expiry_deadline' \in DeadlineType
            /\ will_deadline'.at # "none" => ~done /\ will_deadline.at # "none"
            /\ expiry_deadline'.at # "none" => expiry_deadline.at # "none"
        BY <1>0, <3>2, Absent DEF LifeTypeOK, DeadlineType, WillDue
      <4>3. row.ended \in BOOLEAN
        BY <1>0 DEF LifeTypeOK
      <4>4. session_owner'.generation >= 1 /\ session_owner' # NoSession
        BY <1>0, <1>1, <4>1, Absent DEF OwnerOK
      <4>5. row' \in Row /\ row' = RowOf(session_owner', row'.ended)
        <5>1. CASE done
          BY <3>2, <4>1, <4>3, <5>1, RowFacts
        <5>2. CASE ~done
          BY <1>0, <3>2, <4>1, <5>2 DEF RowCurrent, LifeTypeOK, Row
        <5> QED BY <5>1, <5>2
      <4>6. RowCurrent' /\ DeadlineOK'
        BY <1>0, <4>1, <4>2, <4>4, <4>5 DEF RowCurrent, DeadlineOK
      <4> QED BY <4>1, <4>2, <4>4, <4>5, <4>6
    <3> QED BY <1>3, <3>1, <3>2, Zenon DEF expire_session, Ends
  <2>4. WillsOK' /\ will_published' \in [Connection -> 0..2] /\ unrecorded' \subseteq Connection
    <3>1. UNCHANGED <<bound, connects, graceful>>
      BY <1>1
    <3>2. session_owner'.will \in {0, session_owner.will}
      BY <2>3
    <3>3. WillDue /\ Completes(bad) => session_owner'.will = 0
      BY <2>3
    <3> QED BY <1>3, <3>1, <3>2, <3>3, PublishedFacts
  <2>5. LifeTypeOK'
    BY <1>0, <1>1, <2>1, <2>3, <2>4, SMTT(60) DEF LifeTypeOK, Row
  <2>6. OwnerOK'
    BY <1>0, <1>1, <2>2, <2>3 DEF OwnerOK, LifeTypeOK
  <2> QED BY <2>2, <2>3, <2>4, <2>5, <2>6, Zenon DEF LifeInv
<1> QED BY <1>1, <1>2, <1>3 DEF expiry_task

\* An inactive session whose Will and generation are those of the owner before, or nothing.
SessionKept ==
    /\ session_owner' \in OwnerType /\ row' \in Row
    /\ will_deadline' \in DeadlineType /\ expiry_deadline' \in DeadlineType
    /\ session_owner'.pending => session_owner'.will # 0
    /\ session_owner'.active = FALSE
    /\ session_owner'.will \in {0, session_owner.will}
    /\ session_owner'.generation \in {0, session_owner.generation}
    /\ session_owner' # NoSession => session_owner'.generation >= 1
    /\ RowCurrent' /\ DeadlineOK'

\* A restart restores what the row says, which is what the owner was.
LEMMA RestartStep ==
    ASSUME LifeInv, endpoint_restart
    PROVE  LifeInv' /\ bound' = 0 /\ session_owner'.active = FALSE
<1> USE LifecycleAssumption
<1>0. LifeTypeOK /\ OwnerOK /\ RowCurrent /\ DeadlineOK /\ WillsOK
  BY DEF LifeInv
<1>1. bound' = 0 /\ fenced' = {} /\ UNCHANGED <<connects, wills>> /\ closing' \in BOOLEAN
  BY Zenon DEF endpoint_restart
<1>2. life_faults' \in 0..MaxLifeFaults
  BY <1>0, FaultCount DEF LifeTypeOK, endpoint_restart
<1>3. SessionKept
  <2>1. CASE RemoveSession
    <3>1. session_owner' \in OwnerType /\ ~session_owner'.active
      BY <2>1, RemovedFacts
    <3>2. session_owner'.active = FALSE
      BY <3>1 DEF OwnerType
    <3> QED BY <2>1, <3>2, RemovedFacts DEF SessionKept
  <2>2. ASSUME NEW over \in BOOLEAN, row # NoRow, UNCHANGED row,
               session_owner' = [active |-> FALSE, initialized |-> FALSE, generation |-> row.generation,
                         will |-> row.will, pending |-> row.pending, expiry |-> row.expiry],
               expiry_deadline' = (IF over THEN [at |-> "now", generation |-> row.generation]
                                  ELSE IF row.expiry = "finite"
                                  THEN [at |-> "later", generation |-> row.generation]
                                  ELSE NoDeadline),
               will_deadline' = (IF ~row.pending THEN NoDeadline
                                ELSE [at |-> IF over THEN "now" ELSE "later",
                                      generation |-> row.generation])
        PROVE  SessionKept
    <3>1. row \in Row
      BY <1>0 DEF LifeTypeOK, Row
    <3>2. /\ row.generation = session_owner.generation /\ row.will = session_owner.will
          /\ row.pending = session_owner.pending /\ row.expiry = session_owner.expiry
      BY <1>0 DEF RowCurrent, RowOf
    <3>3. session_owner # NoSession
      BY <1>0, <2>2, SMTT(60) DEF RowCurrent
    <3>4. /\ session_owner' \in OwnerType /\ session_owner'.active = FALSE
          /\ session_owner'.generation = session_owner.generation
          /\ session_owner'.will = session_owner.will /\ session_owner'.pending = row.pending
      BY <2>2, <3>1, <3>2, SMTT(60) DEF OwnerType, Row
    <3>5. session_owner'.generation >= 1 /\ session_owner' # NoSession
      BY <1>0, <3>3, <3>4, Absent DEF OwnerOK
    <3>6. session_owner'.pending => session_owner'.will # 0
      BY <1>0, <3>2, <3>4, SMTT(60) DEF LifeTypeOK
    <3>7. /\ will_deadline' \in DeadlineType /\ expiry_deadline' \in DeadlineType
          /\ will_deadline'.at # "none" => row.pending
      BY <2>2, <3>1, Absent, SMTT(60) DEF DeadlineType, Row
    <3>8. row' = RowOf(session_owner', row'.ended)
      BY <1>0, <2>2, <3>1, <3>4, SMTT(60) DEF RowOf, Row, RowCurrent
    <3> QED BY <2>2, <3>1, <3>4, <3>5, <3>6, <3>7, <3>8 DEF SessionKept, RowCurrent, DeadlineOK
  <2> QED BY <2>1, <2>2, Zenon DEF endpoint_restart
<1>4. LifeTypeOK'
  BY <1>0, <1>1, <1>2, <1>3 DEF SessionKept, LifeTypeOK, Row, wills
<1>5. OwnerOK'
  BY <1>0, <1>1, <1>3, SMTT(60) DEF SessionKept, OwnerOK, LifeTypeOK
<1>6. WillsOK'
  BY <1>0, <1>1, <1>3, SMTT(60) DEF SessionKept, WillsOK, Connection, wills
<1> QED BY <1>1, <1>3, <1>4, <1>5, <1>6 DEF SessionKept, LifeInv

-----------------------------------------------------------------------------
(* Theorems *)

\* Every step keeps the invariant; and unless the repository fails when a connection ends,
\* the session stays active exactly while a connection is bound to it.
LEMMA LifeStep ==
    ASSUME LifeInv, [LifeNext]_lifeVars
    PROVE  /\ LifeInv'
           /\ "close" \notin LifeFaults /\ session_owner.active = (bound # 0) =>
                 session_owner'.active = (bound' # 0)
<1>0. LifeTypeOK /\ session_owner \in OwnerType /\ connects \in Nat
  BY DEF LifeInv, LifeTypeOK
<1>1. ASSUME NEW has_will \in BOOLEAN, NEW e \in Expiries, client_connect(has_will, e)
      PROVE  session_owner.active = (bound # 0) => session_owner'.active = (bound' # 0)
  <2>1. CASE session_owner' = Opened(IF has_will THEN connects' ELSE 0, e) /\ bound' = connects'
    <3>1. session_owner'.active = TRUE
      BY <2>1 DEF Opened
    <3>2. (bound' # 0) = TRUE
      BY <1>0, <1>1, <2>1 DEF client_connect
    <3> QED BY <3>1, <3>2, Zenon
  <2>2. CASE UNCHANGED <<session_owner, bound>>
    BY <2>2
  <2> QED BY <1>1, <2>1, <2>2, Zenon DEF client_connect
<1>2. ASSUME NEW suppress \in BOOLEAN, NEW e \in Expiries, disconnect(suppress, e)
      PROVE  session_owner'.active = session_owner.active /\ UNCHANGED bound
  BY <1>0, <1>2, Zenon DEF disconnect, OwnerType
<1>3. CASE UNCHANGED lifeVars
  <2>1. LifeTypeOK' /\ OwnerOK' /\ RowCurrent'
    BY <1>3 DEF LifeInv, LifeTypeOK, OwnerOK, RowCurrent, lifeVars, deadlines, wills
  <2>2. DeadlineOK' /\ WillsOK'
    BY <1>3 DEF LifeInv, DeadlineOK, WillsOK, lifeVars, deadlines, wills
  <2> QED BY <1>3, <2>1, <2>2 DEF LifeInv, lifeVars
<1>4. ASSUME NEW c \in Connection, connection_release(c)
      PROVE  /\ LifeInv'
             /\ "close" \notin LifeFaults /\ session_owner.active = (bound # 0) =>
                 session_owner'.active = (bound' # 0)
  BY <1>4, ReleaseStep
<1>5. CASE tick_will \/ tick_expiry
  BY <1>5, TickStep
<1>6. CASE expiry_task
  BY <1>6, ExpiryStep
<1>7. CASE endpoint_restart
  BY <1>7, RestartStep, Zenon
<1> QED BY <1>1, <1>2, <1>3, <1>4, <1>5, <1>6, <1>7, ConnectStep, DisconnectStep, SMTT(60) DEF LifeNext

\* The inductive invariant, whatever fails.
THEOREM LifeInvariance == LifeSpec => []LifeInv
<1>1. LifeInv /\ [LifeNext]_lifeVars => LifeInv'
  BY LifeStep
<1> QED BY LifeInitInv, <1>1, PTL DEF LifeSpec

\* A Will is handed to the graph at most once unless a failure kept the owner from recording
\* it, and never after a DISCONNECT that suppresses it, for any number of connections,
\* takeovers, restarts and faults (flowie_expiry_task, flowie_session_owner_disconnect).
THEOREM WillsPublishedOnce == LifeSpec => []WillOnce
<1>1. LifeInv => WillOnce
  BY DEF LifeInv, WillsOK, WillOnce
<1> QED BY <1>1, LifeInvariance, PTL

\* As long as the save at the end of a connection succeeds, repository and memory describe
\* the same session after every handler and every restart, and the owner is active exactly
\* while a connection is bound.
THEOREM RowMatches ==
    ASSUME "close" \notin LifeFaults
    PROVE  LifeSpec => []RowMatchesOwner
<1> DEFINE Bound == session_owner.active = (bound # 0)
<1>1. LifeInit => Bound
  <2>1. LifeInit => session_owner.active = FALSE /\ bound = 0
    BY DEF LifeInit, NoSession
  <2> QED BY <2>1, Zenon
<1>2. LifeInv /\ Bound /\ [LifeNext]_lifeVars => Bound'
  BY LifeStep
<1>3. LifeInv /\ Bound => RowMatchesOwner
  <2>1. LifeInv /\ row = NoRow => session_owner = NoSession
    <3> SUFFICES ASSUME LifeInv, row = NoRow PROVE session_owner = NoSession
      OBVIOUS
    <3>1. row.generation = session_owner.generation /\ row.generation = 0
      BY DEF LifeInv, RowCurrent, RowOf, NoRow, NoSession
    <3> QED BY <3>1 DEF LifeInv, OwnerOK
  <2> QED BY <2>1 DEF LifeInv, RowMatchesOwner, RowCurrent
<1> QED BY <1>1, <1>2, <1>3, LifeInvariance, PTL DEF LifeSpec
=============================================================================
