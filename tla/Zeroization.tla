----------------------------- MODULE Zeroization -----------------------------
(***************************************************************************)
(* zeroize_session_buffers of src/src/zeroization.rs, called by sessions   *)
(* that fill their buffers with secrets again and again.                   *)
(***************************************************************************)
EXTENDS Integers, Sequences

CONSTANTS
    Sessions,      \* session ids; the buffers of a session go by its id
    BlankSession,  \* one id that trims to the empty string
    MaxEvents      \* bound: events the tracker records

Buffers == {"keys", "kv"}
Policies == [zeroize_keys_after_use : BOOLEAN, zeroize_cache_on_evict : BOOLEAN,
             zeroize_session_on_end : BOOLEAN]

VARIABLES
    secret,   \* session -> its buffers that hold something other than zeros
    events,   \* ZeroizationTracker::events: which buffer of which session
    filled,   \* history: session -> buffer -> number of events when it was last filled
    response  \* what the last call returned

vars == <<secret, events, filled, response>>

\* The buffers that are overwritten with zeros.  The end of a session alone clears the
\* cache and not the keys.
Clears(policy) ==
    (IF policy.zeroize_keys_after_use THEN {"keys"} ELSE {})
    \cup (IF policy.zeroize_cache_on_evict \/ policy.zeroize_session_on_end THEN {"kv"} ELSE {})

Event(session, buffer) == [session |-> session, buffer |-> buffer]

\* The events pushed, keys before cache.
Records(session, policy) ==
    (IF "keys" \in Clears(policy) THEN <<Event(session, "keys")>> ELSE <<>>)
    \o (IF "kv" \in Clears(policy) THEN <<Event(session, "kv")>> ELSE <<>>)

Init ==
    /\ secret = [s \in Sessions |-> {}]
    /\ events = <<>>
    /\ filled = [s \in Sessions |-> [b \in Buffers |-> -1]]
    /\ response = "Ok"

\* The session uses a buffer.
Fill(session, buffer) ==
    /\ secret' = [secret EXCEPT ![session] = @ \cup {buffer}]
    /\ filled' = [filled EXCEPT ![session][buffer] = Len(events)]
    /\ UNCHANGED <<events, response>>

\* Variant: the keys are cleared before the id is checked.
zeroize_session_buffersLateCheck(session, policy) ==
    /\ Len(events) + 2 <= MaxEvents
    /\ secret' = [secret EXCEPT ![session] = @ \ Clears(policy)]
    /\ events' = IF session = BlankSession THEN events ELSE events \o Records(session, policy)
    /\ response' = IF session = BlankSession THEN "InvalidInput" ELSE "Ok"
    /\ UNCHANGED filled

zeroize_session_buffers(session, policy) ==
    /\ \/ /\ session = BlankSession
          /\ response' = "InvalidInput"
          /\ UNCHANGED <<secret, events>>
       \/ /\ session # BlankSession
          /\ Len(events) + 2 <= MaxEvents
          /\ secret' = [secret EXCEPT ![session] = @ \ Clears(policy)]
          /\ events' = events \o Records(session, policy)
          /\ response' = "Ok"
    /\ UNCHANGED filled

Next ==
    \/ \E session \in Sessions, buffer \in Buffers : Fill(session, buffer)
    \/ \E session \in Sessions, policy \in Policies : zeroize_session_buffers(session, policy)

Spec == Init /\ [][Next]_vars

\* The tracker can be relied on: a buffer that was filled is clear now if and only if
\* an event after it was last filled names it; a call that fails, or whose policy
\* leaves the buffer alone, does neither.
EventsTellTruth ==
    \A s \in Sessions, b \in Buffers :
        filled[s][b] >= 0
        => (b \notin secret[s]
            <=> \E i \in (filled[s][b] + 1) .. Len(events) : events[i] = Event(s, b))
==============================================================================
