--------------------------- MODULE SstpSessionIds ---------------------------
(***************************************************************************)
(* The session-id allocator of the SSTP server (struct Sessions in         *)
(* src/net/sstp/server.rs): a map from 16-bit local session ids to         *)
(* sessions and a wrapping cursor next_id.  Ids are IdBits wide here so    *)
(* that the wrap-around and the full-table cases are reachable; the code   *)
(* has IdBits = 16.                                                        *)
(*                                                                         *)
(* The allocation loop Sessions::next_id is a pure operator, NextId, and   *)
(* is checked against a reference definition, FirstFree: the first id at   *)
(* or after the cursor, cyclically, that the map does not hold.            *)
(***************************************************************************)
EXTENDS Naturals, FiniteSets

CONSTANTS
    IdBits,     \* width of a session id (16 in the code)
    None        \* model value: Option::None

ASSUME IdBits \in 1..16

NumIds == 2 ^ IdBits
Ids    == 0 .. (NumIds - 1)

\* Mutant: a plain addition where wrapping_add is needed.
WrapIncNoWrap(x) == x + 1

\* u16::wrapping_add(1) at width IdBits.
WrapInc(x) == (x + 1) % NumIds

(***************************************************************************)
(* Sessions::next_id.  The probe counter i is a u16 too; the loop gives up *)
(* when i reaches 0xFFFF = NumIds - 1.  The result is the allocated id (or *)
(* None) and the new value of the cursor.                                  *)
(***************************************************************************)
RECURSIVE NextIdLoop(_, _, _)
NextIdLoop(used, cur, i) ==
    IF cur \notin used
    THEN [id |-> cur, next |-> WrapInc(cur)]
    ELSE IF i + 1 = NumIds - 1
         THEN [id |-> None, next |-> WrapInc(cur)]
         ELSE NextIdLoop(used, WrapInc(cur), i + 1)

\* Mutant: the cursor is advanced before the first probe.
NextIdSkipCursor(used, cur) == NextIdLoop(used, WrapInc(cur), 0)

NextId(used, cur) == NextIdLoop(used, cur, 0)

(***************************************************************************)
(* Reference: the first free id at cyclic offset 0, 1, ... from the        *)
(* cursor, or None when every id is taken.                                 *)
(***************************************************************************)
Offset(cur, k) == (cur + k) % NumIds

FirstFree(used, cur) ==
    IF used = Ids THEN None
    ELSE Offset(cur, CHOOSE k \in 0 .. (NumIds - 1) :
                        /\ Offset(cur, k) \notin used
                        /\ \A j \in 0 .. (k - 1) : Offset(cur, j) \in used)

-----------------------------------------------------------------------------
(***************************************************************************)
(* The table as a state machine: which ids are in use, the cursor, and the *)
(* outcome of the last allocation.  Every operation of the code that       *)
(* changes the table is an action: an allocation (new_outgoing_session,    *)
(* new_incomming_session and new_relay_session all call next_id and insert *)
(* under the sessions lock), a removal (the cleaner, or a CRYPTED packet   *)
(* finding the session's channel closed) and set_next_session_id.          *)
(***************************************************************************)
VARIABLES used, nextId, outcome

vars == <<used, nextId, outcome>>

TypeOK ==
    /\ used \subseteq Ids
    /\ nextId \in Ids
    /\ outcome \in Ids \cup {None}

\* Sessions::new
Init ==
    /\ used = {}
    /\ nextId = 0
    /\ outcome = None

\* Allocate an id and insert the new session (on None the caller returns
\* Error::OutOfSessions and inserts nothing).
Allocate ==
    LET r == NextId(used, nextId)
    IN /\ nextId' = r.next
       /\ outcome' = r.id
       /\ used' = IF r.id = None THEN used ELSE used \cup {r.id}

\* sessions.map.remove(&id) by clean_sessions or process_crypted_packet.
Remove(id) ==
    /\ id \in used
    /\ used' = used \ {id}
    /\ UNCHANGED <<nextId, outcome>>

\* Server::set_next_session_id
SetNextSessionId(id) ==
    /\ nextId' = id
    /\ UNCHANGED <<used, outcome>>

Next ==
    \/ Allocate
    \/ \E id \in Ids : Remove(id)
    \/ \E id \in Ids : SetNextSessionId(id)

Spec == Init /\ [][Next]_vars

-----------------------------------------------------------------------------
(***************************************************************************)
(* Properties.                                                             *)
(***************************************************************************)

\* Whenever Sessions::next_id hands out an id, it is the first free id from
\* the cursor: never an id the map already holds (HashMap::insert would
\* silently replace a live session) and never one beyond a free id.
NextIdIsFirstFree ==
    [][Allocate => (outcome' # None => outcome' = FirstFree(used, nextId))]_vars

\* Sessions::next_id reports the table as full (the caller fails with
\* OutOfSessions) only when every session id is in use.
OutOfSessionsOnlyWhenFull ==
    [][Allocate => (outcome' = None => used = Ids)]_vars

=============================================================================
