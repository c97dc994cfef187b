--------------------------- MODULE FlowieLifecycle ---------------------------
(***************************************************************************)
(* The life of the session of one client id (flowie/src/flowie_endpoint.c, *)
(* flowie/src/flowie_session.c): CONNECT creates, resumes or takes it      *)
(* over, DISCONNECT and lost connections close it, deadlines publish its   *)
(* Will and end it, and a row in the protocol repository lets it survive a *)
(* restart.  Each handler is one step of the owner lane: it changes a copy *)
(* of the owner, saves the copy's row, and only then swaps the copy in.    *)
(* Connections are numbered by their CONNECT; a Will is named by the       *)
(* connection that brought it.                                             *)
(***************************************************************************)
EXTENDS Integers, FiniteSets

CONSTANTS
    MaxConnects,    \* bound: CONNECT packets
    MaxLifeFaults,  \* bound: faults in one behaviour
    LifeFaults,     \* the kinds of fault that may happen
    Expiries        \* Session Expiry Intervals: "zero", "finite", "never"

ASSUME LifecycleAssumption ==
    /\ MaxConnects \in Nat /\ MaxLifeFaults \in Nat
    /\ LifeFaults \subseteq
         {"connect", "disconnect", "close", "dispatch", "complete", "delete", "restart"}
    /\ Expiries \subseteq {"zero", "finite", "never"}

VARIABLES
    session_owner,   \* the session in memory
    row,             \* its row in the repository
    bound,           \* session->connection: a connection, or 0
    closing,         \* that connection is closed, its release still to come
    fenced,          \* connections taken over and not yet released
    will_deadline, expiry_deadline,
    connects,        \* CONNECT packets so far
    life_faults,
    graceful,        \* ghost: connections ended by a DISCONNECT that suppresses the Will
    abnormal,        \* ghost: connections released with their Will in force, until a later CONNECT
    will_published,  \* ghost: times each Will was handed to the graph (never, once, more often)
    unrecorded       \* ghost: Wills handed to the graph without the owner recording it

deadlines == <<will_deadline, expiry_deadline>>
wills == <<graceful, abnormal, will_published, unrecorded>>
lifeVars == <<session_owner, row, bound, closing, fenced, deadlines, connects, life_faults, wills>>

Connection == 1..MaxConnects
NoSession == [active |-> FALSE, initialized |-> FALSE, generation |-> 0, will |-> 0,
              pending |-> FALSE, expiry |-> "zero"]
\* A row keeps what a restart needs; ended tells that expiry_at_epoch_seconds is set.
RowOf(o, ended) ==
    [generation |-> o.generation, will |-> o.will, pending |-> o.pending, expiry |-> o.expiry,
     ended |-> ended]
NoRow == RowOf(NoSession, FALSE)
NoDeadline == [at |-> "none", generation |-> 0]
Deadline(at) == [at |-> at, generation |-> session_owner.generation]

Fails(kinds) ==
    /\ kinds \subseteq LifeFaults
    /\ life_faults + Cardinality(kinds) <= MaxLifeFaults
    /\ life_faults' = life_faults + Cardinality(kinds)

-----------------------------------------------------------------------------
(* CONNECT and DISCONNECT *)

\* owner_open: the next generation, with the Will and the expiry of this CONNECT.
Opened(will, expiry) ==
    [active |-> TRUE, initialized |-> TRUE, generation |-> session_owner.generation + 1,
     will |-> will, pending |-> FALSE, expiry |-> expiry]

\* The CONNECT is accepted: row, owner, fence of the previous connection, bind_session.
\* When the row cannot be saved nothing changes and the new connection is dropped.
client_connect(has_will, expiry) ==
    /\ connects < MaxConnects
    /\ connects' = connects + 1
    /\ bound = 0 => ~session_owner.active  \* otherwise CONNACK "client id in use"
    /\ \/ /\ Fails({})
          /\ session_owner' = Opened(IF has_will THEN connects' ELSE 0, expiry)
          /\ row' = RowOf(session_owner', FALSE)
          /\ fenced' = IF bound = 0 THEN fenced ELSE fenced \union {bound}
          /\ bound' = connects' /\ closing' = FALSE
          /\ will_deadline' = NoDeadline /\ expiry_deadline' = NoDeadline
          /\ abnormal' = {}
       \/ /\ Fails({"connect"})
          /\ UNCHANGED <<session_owner, row, bound, closing, fenced, deadlines, abnormal>>
    /\ UNCHANGED <<graceful, will_published, unrecorded>>

\* Mutant: DISCONNECT keeps the Will.
SuppressedNever(suppress) == session_owner.will

Suppressed(suppress) == IF suppress THEN 0 ELSE session_owner.will

\* DISCONNECT: reason codes other than 0x04 suppress the Will; the expiry may be replaced,
\* but raising it from zero is a protocol error, which ends the connection unheard.  If the
\* row cannot be saved the connection ends all the same.
disconnect(suppress, expiry) ==
    /\ bound # 0 /\ ~closing
    /\ session_owner.expiry = "zero" => expiry = "zero"
    /\ \/ /\ Fails({})
          /\ session_owner' = [session_owner EXCEPT !.expiry = expiry, !.will = Suppressed(suppress)]
          /\ row' = RowOf(session_owner', FALSE)
          /\ graceful' = IF suppress THEN graceful \union {bound} ELSE graceful
       \/ /\ Fails({"disconnect"})
          /\ UNCHANGED <<session_owner, row, graceful>>
    /\ closing' = TRUE
    /\ UNCHANGED <<bound, fenced, deadlines, connects, abnormal, will_published, unrecorded>>

-----------------------------------------------------------------------------
(* The end of a connection *)

\* owner_close: a Will becomes pending.
Closed(o) == [o EXCEPT !.active = FALSE, !.pending = (o.will # 0)]

\* record_delete and session_remove.
RemoveSession ==
    /\ session_owner' = NoSession /\ row' = NoRow
    /\ will_deadline' = NoDeadline /\ expiry_deadline' = NoDeadline

expiry_arm(o) ==
    IF o.expiry = "never" THEN NoDeadline
    ELSE Deadline(IF o.expiry = "zero" THEN "now" ELSE "later")

\* The Will Delay, or the end of the session if that is earlier.
will_arm(o) ==
    IF ~o.pending THEN NoDeadline
    ELSE Deadline(IF o.expiry = "zero" THEN "now" ELSE "later")

\* session_close_schedule: a session with nothing left is removed with its row; any other
\* is saved and its deadlines are armed.  When the repository fails, the owner stays as it
\* is and nobody tries again.
close_schedule ==
    \/ /\ Fails({})
       /\ IF session_owner.expiry = "zero" /\ session_owner.will = 0
          THEN RemoveSession
          ELSE /\ session_owner' = Closed(session_owner)
               /\ row' = RowOf(session_owner', session_owner.expiry # "never")
               /\ expiry_deadline' = expiry_arm(session_owner')
               /\ will_deadline' = will_arm(session_owner')
    \/ /\ Fails({"close"})
       /\ UNCHANGED <<session_owner, row, deadlines>>

\* Mutant: the release of a connection that was taken over closes the session as well.
OwnsAny(c) == TRUE

Owns(c) == c = bound

\* net_connection_release: only the connection that owns the session closes it.
connection_release(c) ==
    /\ c = bound \/ c \in fenced
    /\ fenced' = fenced \ {c}
    /\ bound' = IF c = bound THEN 0 ELSE bound
    /\ closing' = IF c = bound THEN FALSE ELSE closing
    /\ IF Owns(c) THEN close_schedule
                  ELSE Fails({}) /\ UNCHANGED <<session_owner, row, deadlines>>
    /\ abnormal' = IF Owns(c) /\ session_owner.will = c THEN abnormal \union {c} ELSE abnormal
    /\ UNCHANGED <<connects, graceful, will_published, unrecorded>>

-----------------------------------------------------------------------------
(* Deadlines *)

tick_will ==
    /\ will_deadline.at = "later"
    /\ will_deadline' = [will_deadline EXCEPT !.at = "now"]
    /\ UNCHANGED <<session_owner, row, bound, closing, fenced, expiry_deadline, connects,
                   life_faults, wills>>

tick_expiry ==
    /\ expiry_deadline.at = "later"
    /\ expiry_deadline' = [expiry_deadline EXCEPT !.at = "now"]
    /\ UNCHANGED <<session_owner, row, bound, closing, fenced, will_deadline, connects,
                   life_faults, wills>>

Stale(d) == d.at # "none" /\ d.generation # session_owner.generation
WillDue == will_deadline.at = "now"

\* The owner records the publication.  Building the row needs an initialized owner, which
\* one restored from its row is not before its first CONNECT.
Completes(bad) == bad \intersect {"dispatch", "complete"} = {} /\ session_owner.initialized

\* Mutant: the session ends although its Will is still to be published.
EndsEarly(bad) == expiry_deadline.at = "now"

\* An ended session is removed, with its row, once no Will is waiting.
Ends(bad) ==
    /\ expiry_deadline.at = "now"
    /\ will_deadline.at = "none" \/ (WillDue /\ Completes(bad))

\* One inactive session in a round of the expiry task: the Will, then the end.  The round
\* meets at most one failure on each; whatever failed is due again a second later.
expire_session(bad) ==
    LET sent == WillDue /\ "dispatch" \notin bad
        done == WillDue /\ Completes(bad)
    IN /\ {"dispatch", "complete"} \intersect bad # {} => WillDue
       /\ ~({"dispatch", "complete"} \subseteq bad)
       /\ "delete" \in bad => Ends(bad)
       /\ Fails(bad)
       /\ will_published' = IF sent THEN [will_published EXCEPT ![session_owner.will] = IF @ = 2 THEN 2 ELSE @ + 1]
                               ELSE will_published
       /\ unrecorded' = IF sent /\ ~done THEN unrecorded \union {session_owner.will} ELSE unrecorded
       /\ IF Ends(bad) /\ "delete" \notin bad THEN RemoveSession
          ELSE /\ session_owner' = IF done THEN [session_owner EXCEPT !.will = 0, !.pending = FALSE] ELSE session_owner
               /\ row' = IF done THEN RowOf(session_owner', row.ended) ELSE row
               /\ will_deadline' = IF done THEN NoDeadline
                                   ELSE IF WillDue THEN [will_deadline EXCEPT !.at = "later"]
                                   ELSE will_deadline
               /\ expiry_deadline' = IF "delete" \in bad THEN [expiry_deadline EXCEPT !.at = "later"]
                                                        ELSE expiry_deadline

expiry_task ==
    /\ session_owner # NoSession
    /\ \/ /\ session_owner.active \/ Stale(will_deadline) \/ Stale(expiry_deadline)
          /\ will_deadline' = NoDeadline /\ expiry_deadline' = NoDeadline
          /\ UNCHANGED <<session_owner, row, will_published, unrecorded, life_faults>>
       \/ /\ ~session_owner.active /\ ~Stale(will_deadline) /\ ~Stale(expiry_deadline)
          /\ \E bad \in SUBSET {"dispatch", "complete", "delete"} : expire_session(bad)
    /\ UNCHANGED <<bound, closing, fenced, connects, graceful, abnormal>>

\* The endpoint stops or crashes, and the next one restores the session from its row; the
\* expiry of a closed session may have passed in the meantime.
endpoint_restart ==
    /\ Fails({"restart"})
    /\ bound' = 0 /\ closing' = FALSE /\ fenced' = {}
    /\ \E passed \in BOOLEAN :
         LET over == row.expiry = "zero" \/ (passed /\ row.ended) IN
         \/ /\ row = NoRow \/ (over /\ ~row.pending)
            /\ RemoveSession
         \/ /\ row # NoRow /\ (over => row.pending)
            /\ session_owner' = [active |-> FALSE, initialized |-> FALSE, generation |-> row.generation,
                         will |-> row.will, pending |-> row.pending, expiry |-> row.expiry]
            /\ expiry_deadline' = IF over THEN [at |-> "now", generation |-> row.generation]
                                  ELSE IF row.expiry = "finite"
                                  THEN [at |-> "later", generation |-> row.generation]
                                  ELSE NoDeadline
            /\ will_deadline' = IF ~row.pending THEN NoDeadline
                                ELSE [at |-> IF over THEN "now" ELSE "later",
                                      generation |-> row.generation]
            /\ UNCHANGED row
    /\ UNCHANGED <<connects, wills>>

-----------------------------------------------------------------------------
LifeInit ==
    /\ session_owner = NoSession /\ row = NoRow
    /\ bound = 0 /\ closing = FALSE /\ fenced = {}
    /\ will_deadline = NoDeadline /\ expiry_deadline = NoDeadline
    /\ connects = 0 /\ life_faults = 0
    /\ graceful = {} /\ abnormal = {} /\ unrecorded = {}
    /\ will_published = [c \in Connection |-> 0]

LifeNext ==
    \/ \E has_will \in BOOLEAN, e \in Expiries : client_connect(has_will, e)
    \/ \E suppress \in BOOLEAN, e \in Expiries : disconnect(suppress, e)
    \/ \E c \in Connection : connection_release(c)
    \/ tick_will
    \/ tick_expiry
    \/ expiry_task
    \/ endpoint_restart

\* Time passes, the expiry task runs again whenever it is due, and the network reports the
\* end of every connection the broker has closed.
LifeFairness ==
    /\ WF_lifeVars(tick_will) /\ WF_lifeVars(tick_expiry)
    /\ WF_lifeVars(expiry_task)
    /\ \A c \in Connection : WF_lifeVars((closing \/ c \in fenced) /\ connection_release(c))

LifeSpec == LifeInit /\ [][LifeNext]_lifeVars /\ LifeFairness

-----------------------------------------------------------------------------
(* Properties *)

OwnerType == [active: BOOLEAN, initialized: BOOLEAN, generation: 0..MaxConnects,
              will: 0..MaxConnects, pending: BOOLEAN, expiry: {"zero", "finite", "never"}]
DeadlineType == [at: {"none", "later", "now"}, generation: 0..MaxConnects]

\* Every variable has its type, and only a Will can be pending.
LifeTypeOK ==
    /\ session_owner \in OwnerType /\ (session_owner.pending => session_owner.will # 0)
    /\ row \in [generation: 0..MaxConnects, will: 0..MaxConnects, pending: BOOLEAN,
                expiry: {"zero", "finite", "never"}, ended: BOOLEAN]
    /\ bound \in 0..MaxConnects /\ closing \in BOOLEAN /\ fenced \subseteq Connection
    /\ will_deadline \in DeadlineType /\ expiry_deadline \in DeadlineType
    /\ connects \in 0..MaxConnects /\ life_faults \in 0..MaxLifeFaults
    /\ will_published \in [Connection -> 0..2]
    /\ \A s \in {graceful, abnormal, unrecorded} : s \subseteq Connection

\* Repository and memory describe the same session after every handler, failed saves and
\* restarts included: what was answered to the client is what a restart would restore.  The
\* owner is active exactly while a connection is bound to it: neither an old deadline nor
\* the late release of a connection that was taken over ends or deactivates the session.
RowMatchesOwner ==
    /\ LifeTypeOK
    /\ (session_owner = NoSession) = (row = NoRow)
    /\ row = RowOf(session_owner, row.ended)
    /\ session_owner.active = (bound # 0)

\* The Will of a connection that ended abnormally is published, unless a later CONNECT
\* cancels it, however often graph and repository fail in between.
WillPublished ==
    \A c \in Connection : []<>(will_published[c] > 0 \/ c \notin abnormal)

\* A Will is handed to the graph at most once unless a failure kept the owner from
\* recording it, and never after a DISCONNECT that suppresses it (OWNER-008 of the test
\* matrix).
WillOnce ==
    \A c \in Connection : /\ will_published[c] > 1 => c \in unrecorded
                          /\ c \in graceful => will_published[c] = 0

\* A session whose expiry interval is finite ends, unless its client comes back, and not
\* before its Will is out; one that was restored with a Will still pending is left out,
\* since its Will cannot be recorded.
SessionEnds ==
    /\ WillPublished
    /\ []<>(\/ session_owner = NoSession \/ session_owner.active \/ session_owner.expiry = "never"
            \/ ~session_owner.initialized /\ session_owner.pending)
=============================================================================
