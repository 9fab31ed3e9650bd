---------------------------- MODULE StreamSession ----------------------------
(***************************************************************************)
(* The connections of one token in pkg/grpc/server.go: StreamEvents calls  *)
(* (Handlers), which register themselves in s.activeConns[token] and close *)
(* the connection registered before, and DisconnectStream calls (Calls),   *)
(* which look the connection up, cancel it and remove the entry in         *)
(* separate critical sections.  Tokens share nothing but the mutex, so one *)
(* token is modelled.                                                      *)
(*                                                                         *)
(* The list of subscribers is Subscribers' subject; the scheduler is seen  *)
(* here as a receipt that is pending or not (SessionScheduler has its      *)
(* inside).                                                                *)
(***************************************************************************)
EXTENDS Naturals

CONSTANTS
  Handlers,  \* the StreamEvents calls made with the token
  Calls,     \* the DisconnectStream calls made with the token
  NoStream,  \* no entry in activeConns
  Bearer,    \* whether clients present the token with the prefix "Bearer "
  RedisFails \* whether calls to Redis may fail

ASSUME NoStreamAssumption ==
  NoStream \notin Handlers /\ Bearer \in BOOLEAN /\ RedisFails \in BOOLEAN

VARIABLES
  activeConn,   \* s.activeConns[token]
  phase,        \* where each stream handler is
  canceled,     \* whether the context made for the stream was cancelled
  gone,         \* whether its client went away, which ends the parent context
  headerSent,   \* whether its header was sent, by itself or by Close
  clean,        \* its cleanDisconnect
  receipt,      \* whether a session receipt is scheduled
  expired,      \* whether the token expired
  blacklisted,  \* whether the token is on the blacklist
  call,         \* where each DisconnectStream call is
  conn,         \* the connection the call looked up
  unlisted      \* history: streams whose entry a call removed instead of conn's

streamVars == <<phase, canceled, gone, headerSent, clean>>
callVars == <<call, conn>>
connVars == <<activeConn, streamVars, receipt, expired, blacklisted, callVars,
          unlisted>>

(* Handlers and calls are at one of their places, the map entry is a       *)
(* stream or absent, and a DisconnectStream call past its lookup holds a   *)
(* connection, which it will dereference (activeConn.cancel()).            *)
ConnTypeOK ==
  /\ activeConn \in Handlers \union {NoStream}
  /\ phase \in [Handlers -> {"new", "checked", "admitted", "registered", "streaming",
                            "sending", "leaving", "unlocked", "ended"}]
  /\ canceled \in [Handlers -> BOOLEAN]
  /\ gone \in [Handlers -> BOOLEAN]
  /\ headerSent \in [Handlers -> BOOLEAN]
  /\ clean \in [Handlers -> BOOLEAN]
  /\ receipt \in BOOLEAN /\ expired \in BOOLEAN /\ blacklisted \in BOOLEAN
  /\ call \in [Calls -> {"new", "checked", "admitted", "found", "receiptCancelled",
                         "connCancelled", "removed", "returned"}]
  /\ conn \in [Calls -> Handlers \union {NoStream}]
  /\ \A d \in Calls :
       call[d] \notin {"new", "checked", "admitted", "returned"} => conn[d] \in Handlers
  /\ unlisted \subseteq Handlers

-----------------------------------------------------------------------------
(* NewServer: no connection, nothing scheduled.                            *)
ConnInit ==
  /\ activeConn = NoStream
  /\ phase = [s \in Handlers |-> "new"]
  /\ canceled = [s \in Handlers |-> FALSE]
  /\ gone = [s \in Handlers |-> FALSE]
  /\ headerSent = [s \in Handlers |-> FALSE]
  /\ clean = [s \in Handlers |-> FALSE]
  /\ receipt = FALSE /\ expired = FALSE /\ blacklisted = FALSE
  /\ call = [d \in Calls |-> "new"]
  /\ conn = [d \in Calls |-> NoStream]
  /\ unlisted = {}

(* The token parses while it has not expired.                              *)
Parses == ~expired

(* ValidateJWT: the blacklist is looked up under the header's value, and   *)
(* written by DisconnectStream under the token without its prefix; any     *)
(* error of the lookup counts as not blacklisted.                          *)
Valid == Parses /\ (blacklisted => Bearer \/ RedisFails)

Goto(s, label) == phase' = [phase EXCEPT ![s] = label]

(* The interceptor validates the token, and StreamEvents does again; what  *)
(* either has seen may be different when the stream registers.             *)
Intercept(s) ==
  /\ phase[s] = "new" /\ Valid
  /\ Goto(s, "checked")
  /\ UNCHANGED <<activeConn, canceled, gone, headerSent, clean, receipt,
                 expired, blacklisted, callVars, unlisted>>

Admit(s) ==
  /\ phase[s] = "checked" /\ Valid
  /\ Goto(s, "admitted")
  /\ UNCHANGED <<activeConn, canceled, gone, headerSent, clean, receipt,
                 expired, blacklisted, callVars, unlisted>>

(* Close of a connection: its context is cancelled and a header sent on    *)
(* its stream.  (No connection is a WebSocket.)                            *)
CloseConn(c) ==
  /\ canceled' = [canceled EXCEPT ![c] = TRUE]
  /\ headerSent' = [headerSent EXCEPT ![c] = @ \/ ~gone[c]]

(* The critical section of StreamEvents: the connection of the token, if   *)
(* there is one, is closed and the new one takes its place.                *)
Register(s) ==
  /\ phase[s] = "admitted"
  /\ IF activeConn # NoStream
       THEN CloseConn(activeConn)
       ELSE UNCHANGED <<canceled, headerSent>>
  /\ activeConn' = s
  /\ Goto(s, "registered")
  /\ UNCHANGED <<gone, clean, receipt, expired, blacklisted, callVars, unlisted>>

(* The confirmation header: a second one, or one to a client that went     *)
(* away, is an error that ends the stream.                                 *)
SendHeader(s) ==
  /\ phase[s] = "registered"
  /\ IF headerSent[s] \/ gone[s]
       THEN Goto(s, "leaving") /\ UNCHANGED headerSent
       ELSE Goto(s, "streaming") /\ headerSent' = [headerSent EXCEPT ![s] = TRUE]
  /\ UNCHANGED <<activeConn, canceled, gone, clean, receipt, expired,
                 blacklisted, callVars, unlisted>>

(* Fault: the select waits for the client's context, not the one of the    *)
(* connection.                                                             *)
EndExpectedFault(s) ==
  /\ phase[s] = "streaming"
  /\ expired \/ gone[s]
  /\ clean' = [clean EXCEPT ![s] = TRUE]
  /\ Goto(s, "leaving")
  /\ UNCHANGED <<activeConn, canceled, gone, headerSent, receipt, expired,
                 blacklisted, callVars, unlisted>>

(* The expiry timer and ctx.Done branches of the select: a clean end.      *)
EndExpected(s) ==
  /\ phase[s] = "streaming"
  /\ expired \/ canceled[s] \/ gone[s]
  /\ clean' = [clean EXCEPT ![s] = TRUE]
  /\ Goto(s, "leaving")
  /\ UNCHANGED <<activeConn, canceled, gone, headerSent, receipt, expired,
                 blacklisted, callVars, unlisted>>

(* The event branch: the bytes are counted and the event is handed to the  *)
(* transport, which blocks while the client does not read.                 *)
TakeEvent(s) ==
  /\ phase[s] = "streaming"
  /\ Goto(s, "sending")
  /\ UNCHANGED <<activeConn, canceled, gone, headerSent, clean, receipt,
                 expired, blacklisted, callVars, unlisted>>

SendReturns(s) ==
  /\ phase[s] = "sending"
  /\ Goto(s, IF gone[s] THEN "leaving" ELSE "streaming")
  /\ UNCHANGED <<activeConn, canceled, gone, headerSent, clean, receipt,
                 expired, blacklisted, callVars, unlisted>>

(* Fault: the cleanup forgets the entry of activeConns.                    *)
UnregisterKeeps(s) ==
  /\ phase[s] = "leaving"
  /\ Goto(s, "unlocked")
  /\ UNCHANGED <<activeConn, canceled, gone, headerSent, clean, receipt, expired,
                 blacklisted, callVars, unlisted>>

(* Fault: the cleanup deletes the entry without comparing it.              *)
UnregisterAny(s) ==
  /\ phase[s] = "leaving"
  /\ activeConn' = NoStream
  /\ Goto(s, "unlocked")
  /\ UNCHANGED <<canceled, gone, headerSent, clean, receipt, expired,
                 blacklisted, callVars, unlisted>>

(* The deferred cleanup, its critical section: the entry goes if it is     *)
(* still this stream's.                                                    *)
Unregister(s) ==
  /\ phase[s] = "leaving"
  /\ activeConn' = IF activeConn = s THEN NoStream ELSE activeConn
  /\ Goto(s, "unlocked")
  /\ UNCHANGED <<canceled, gone, headerSent, clean, receipt, expired,
                 blacklisted, callVars, unlisted>>

(* The rest of the cleanup: cancel, and a receipt if the end was unclean.  *)
(* The handler returns; what was local to it or its stream is forgotten.   *)
Finish(s) ==
  /\ phase[s] = "unlocked"
  /\ canceled' = [canceled EXCEPT ![s] = TRUE]
  /\ receipt' = (receipt \/ ~clean[s])
  /\ gone' = [gone EXCEPT ![s] = FALSE]
  /\ headerSent' = [headerSent EXCEPT ![s] = FALSE]
  /\ clean' = [clean EXCEPT ![s] = FALSE]
  /\ Goto(s, "ended")
  /\ UNCHANGED <<activeConn, expired, blacklisted, callVars, unlisted>>

-----------------------------------------------------------------------------
Step(d, label) == call' = [call EXCEPT ![d] = label]

(* The interceptor's check of the token, and DisconnectStream's own.       *)
InterceptCall(d) ==
  /\ call[d] = "new" /\ Valid
  /\ Step(d, "checked")
  /\ UNCHANGED <<activeConn, streamVars, receipt, expired, blacklisted, conn, unlisted>>

AdmitCall(d) ==
  /\ call[d] = "checked" /\ Valid
  /\ Step(d, "admitted")
  /\ UNCHANGED <<activeConn, streamVars, receipt, expired, blacklisted, conn, unlisted>>

(* The lookup, which may find nothing.                                     *)
Lookup(d) ==
  /\ call[d] = "admitted"
  /\ conn' = [conn EXCEPT ![d] = activeConn]
  /\ Step(d, IF activeConn = NoStream THEN "returned" ELSE "found")
  /\ UNCHANGED <<activeConn, streamVars, receipt, expired, blacklisted, unlisted>>

(* CancelSessionReceipt.                                                   *)
CancelReceipt(d) ==
  /\ call[d] = "found"
  /\ receipt' = FALSE
  /\ Step(d, "receiptCancelled")
  /\ UNCHANGED <<activeConn, streamVars, expired, blacklisted, conn, unlisted>>

(* activeConn.cancel().                                                    *)
CancelConn(d) ==
  /\ call[d] = "receiptCancelled"
  /\ canceled' = [canceled EXCEPT ![conn[d]] = TRUE]
  /\ Step(d, "connCancelled")
  /\ UNCHANGED <<activeConn, phase, gone, headerSent, clean, receipt, expired,
                 blacklisted, conn, unlisted>>

(* delete(s.activeConns, token), whoever the entry is of by now.           *)
RemoveEntry(d) ==
  /\ call[d] = "connCancelled"
  /\ activeConn' = NoStream
  /\ unlisted' = unlisted \union ({activeConn} \ {conn[d], NoStream})
  /\ Step(d, "removed")
  /\ UNCHANGED <<streamVars, receipt, expired, blacklisted, conn>>

(* The token is put on the blacklist; an error of Redis is ignored.        *)
Blacklist(d) ==
  /\ call[d] = "removed"
  /\ blacklisted' \in IF RedisFails THEN {blacklisted, TRUE} ELSE {TRUE}
  /\ Step(d, "returned")
  /\ UNCHANGED <<activeConn, streamVars, receipt, expired, conn, unlisted>>

-----------------------------------------------------------------------------
(* A client goes away, the token's time is over, the receipt's is.         *)
ClientGone(s) ==
  /\ phase[s] \in {"registered", "streaming", "sending"} /\ ~gone[s]
  /\ gone' = [gone EXCEPT ![s] = TRUE]
  /\ UNCHANGED <<activeConn, phase, canceled, headerSent, clean, receipt, expired,
                 blacklisted, callVars, unlisted>>

Expire ==
  /\ ~expired
  /\ expired' = TRUE
  /\ UNCHANGED <<activeConn, streamVars, receipt, blacklisted, callVars, unlisted>>

SubmitReceipt ==
  /\ receipt
  /\ receipt' = FALSE
  /\ UNCHANGED <<activeConn, streamVars, expired, blacklisted, callVars, unlisted>>

ConnNext ==
  \/ \E s \in Handlers :
       \/ Intercept(s) \/ Admit(s) \/ Register(s) \/ SendHeader(s) \/ EndExpected(s)
       \/ TakeEvent(s) \/ SendReturns(s) \/ Unregister(s) \/ Finish(s) \/ ClientGone(s)
  \/ \E d \in Calls :
       \/ InterceptCall(d) \/ AdmitCall(d) \/ Lookup(d) \/ CancelReceipt(d)
       \/ CancelConn(d) \/ RemoveEntry(d) \/ Blacklist(d)
  \/ Expire \/ SubmitReceipt

ConnSpec == ConnInit /\ [][ConnNext]_connVars

(* Handlers run; a select that finds its context done over and over takes  *)
(* that branch (Go chooses at random); a client reads what it is sent or   *)
(* its connection is given up.  Nobody must connect, leave or disconnect.  *)
ConnFairness ==
  /\ \A s \in Handlers :
       /\ WF_connVars(SendHeader(s)) /\ SF_connVars(EndExpected(s))
       /\ WF_connVars(SendReturns(s)) /\ WF_connVars(Unregister(s)) /\ WF_connVars(Finish(s))
  /\ \A d \in Calls :
       WF_connVars(CancelReceipt(d)) /\ WF_connVars(CancelConn(d))
         /\ WF_connVars(RemoveEntry(d)) /\ WF_connVars(Blacklist(d))

ConnFairSpec == ConnSpec /\ ConnFairness

-----------------------------------------------------------------------------
Live(s) == phase[s] \in {"registered", "streaming", "sending", "leaving"}

(* The tracked connection of a token is one whose handler has not cleaned  *)
(* up: neither the conditional delete of a replaced stream nor the         *)
(* unconditional one of DisconnectStream leaves an entry that dangles.     *)
TrackedIsLive == activeConn # NoStream => Live(activeConn)

(* A stream that still runs but is not the tracked one has been cancelled, *)
(* by the stream that replaced it or by the call that removed it, unless a *)
(* DisconnectStream call removed its entry in place of an older stream's.  *)
UntrackedIsCancelled ==
  \A s \in Handlers :
    Live(s) => s = activeConn \/ canceled[s] \/ s \in unlisted

(* A stream that was replaced, or that a DisconnectStream call found, ends *)
(* and cleans up, also when it is replaced or leaves of itself between the *)
(* steps of that call: no handler stays behind with its subscription.      *)
ToldToEnd(s) ==
  canceled[s] \/ \E d \in Calls : call[d] = "found" /\ conn[d] = s

ToldStreamsEnd ==
  \A s \in Handlers : (Live(s) /\ ToldToEnd(s)) ~> phase[s] = "ended"
=============================================================================
