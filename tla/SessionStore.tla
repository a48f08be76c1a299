---------------------------- MODULE SessionStore ----------------------------
(***************************************************************************)
(* The SQLite database of crates/meetbutler-engine/src/store.rs: one row,  *)
(* one transcript and at most one summary per session.  Every operation of *)
(* SessionStore takes the connection mutex and runs one statement or one   *)
(* transaction, so each is one atomic action here; what survives a crash   *)
(* is exactly these three variables.                                       *)
(*                                                                         *)
(* A row keeps the columns the recorder's decisions read or overwrite.     *)
(* Timestamps, language, duration and vocabulary are left out: they are    *)
(* carried through every save unread.  A segment is <<pass, channel, k>>:  *)
(* the k-th utterance of a channel, as one of the two passes wrote it.     *)
(***************************************************************************)
EXTENDS Integers, FiniteSets

CONSTANTS
    Sessions,   \* session ids
    Channels,   \* the two tracks of a recording, "mic" and "system"
    Titles,     \* titles a user may type
    Untitled,   \* the title of a session nobody renamed
    NoRow       \* no such session

Statuses == {"recording", "transcribing", "finalizing", "stopped", "interrupted"}

\* Statuses only a running process may leave a session in (see recover_interrupted).
MidFlight == {"recording", "transcribing", "finalizing"}

Passes == {"live", "final"}

Segments == Passes \X Channels \X (Nat \ {0})

Row == [status     : Statuses,
        title      : Titles \cup {Untitled},
        sources    : SUBSET Channels,
        transcript : Passes,
        count      : Nat,
        error      : BOOLEAN]

ASSUME StoreAssumption ==
    /\ NoRow \notin Row
    /\ IsFiniteSet(Channels)

VARIABLES
    rows,       \* table sessions
    segments,   \* table segments
    summaries   \* sessions with a row in table summaries

storeVars == <<rows, segments, summaries>>

StoreTypeOK ==
    /\ rows \in [Sessions -> Row \cup {NoRow}]
    /\ segments \in [Sessions -> SUBSET Segments]
    /\ summaries \in SUBSET Sessions

StoreInit ==
    /\ rows = [s \in Sessions |-> NoRow]
    /\ segments = [s \in Sessions |-> {}]
    /\ summaries = {}

\* Session::new
NewRow(sources) ==
    [status |-> "recording", title |-> Untitled, sources |-> sources,
     transcript |-> "live", count |-> 0, error |-> FALSE]

\* The columns the recorder changes on its copies of a row.
WithStatus(row, status) == [row EXCEPT !.status = status]
WithTitle(row, title)   == [row EXCEPT !.title = title]
WithCount(row, n)       == [row EXCEPT !.count = n]
WithFinal(row, n)       == [row EXCEPT !.transcript = "final", !.count = n]
WithError(row, error)   == [row EXCEPT !.error = error]

-----------------------------------------------------------------------------
\* Insert the row, or overwrite every column of it.
SaveSession(s, row) ==
    /\ rows' = [rows EXCEPT ![s] = row]
    /\ UNCHANGED <<segments, summaries>>

\* Overwrites one column, and only of a row that is there.
RenameSession(s, title) ==
    /\ rows' = IF rows[s] = NoRow THEN rows ELSE [rows EXCEPT ![s] = WithTitle(@, title)]
    /\ UNCHANGED <<segments, summaries>>

DeleteSession(s) ==
    /\ rows' = [rows EXCEPT ![s] = NoRow]
    /\ segments' = [segments EXCEPT ![s] = {}]
    /\ summaries' = summaries \ {s}

\* Slip: a status the schema does not know.
RecoverAsCrashed ==
    /\ rows' = [s \in Sessions |->
                  IF rows[s] # NoRow /\ rows[s].status \in MidFlight
                  THEN WithStatus(rows[s], "crashed")
                  ELSE rows[s]]
    /\ UNCHANGED <<segments, summaries>>

\* Slip: only captures are looked for, not the drain or the final pass.
RecoverRecordingOnly ==
    /\ rows' = [s \in Sessions |->
                  IF rows[s] # NoRow /\ rows[s].status = "recording"
                  THEN WithStatus(rows[s], "interrupted")
                  ELSE rows[s]]
    /\ UNCHANGED <<segments, summaries>>

RecoverInterrupted ==
    /\ rows' = [s \in Sessions |->
                  IF rows[s] # NoRow /\ rows[s].status \in MidFlight
                  THEN WithStatus(rows[s], "interrupted")
                  ELSE rows[s]]
    /\ UNCHANGED <<segments, summaries>>

AddSegments(s, added) ==
    /\ segments' = [segments EXCEPT ![s] = @ \cup added]
    /\ UNCHANGED <<rows, summaries>>

\* Slip: the live segments are not deleted first.
ReplaceKeepsLive(s, added) ==
    /\ rows[s] # NoRow
    /\ rows' = [rows EXCEPT ![s] = WithFinal(@, Cardinality(added))]
    /\ segments' = [segments EXCEPT ![s] = @ \cup added]
    /\ UNCHANGED summaries

\* Refused (QueryReturnedNoRows, transaction rolled back) when the row is gone.
ReplaceTranscript(s, added) ==
    /\ rows[s] # NoRow
    /\ rows' = [rows EXCEPT ![s] = WithFinal(@, Cardinality(added))]
    /\ segments' = [segments EXCEPT ![s] = added]
    /\ UNCHANGED summaries

\* An upsert of its own table: it does not look at the sessions table.
SaveSummary(s) ==
    /\ summaries' = summaries \cup {s}
    /\ UNCHANGED <<rows, segments>>
=============================================================================
