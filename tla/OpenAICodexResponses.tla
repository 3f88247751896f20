------------------------ MODULE OpenAICodexResponses ------------------------
(***************************************************************************)
(* The requests of one session to the Codex provider: a coroutine each,    *)
(* over a WebSocket that is cached between requests, one of its own, or    *)
(* SSE with retries, and aborted from another thread at any moment.        *)
(*                                                                         *)
(* A connection is named after the request that opens it. OkHttp and the   *)
(* server are modelled from how the code uses them: the events of a        *)
(* response are "created", then "done" or "failed", and nothing follows    *)
(* them; an input is a sequence of items and an answer is one item.        *)
(***************************************************************************)
EXTENDS Naturals, FiniteSets, Sequences, SequencesExt

CONSTANTS
  Requests, NoOne,
  Inputs,        (* what requests may send                                 *)
  AnswerItem,    (* what the model answers                                 *)
  Transports,    (* which of them the requests may ask for together        *)
  MaxRetries,    (* CODEX_MAX_RETRIES                                      *)
  Faults,        (* what may go wrong                                      *)
  MaxFaults      (* bound: how often something goes wrong                  *)

ASSUME CodexAssumption ==
  /\ NoOne \notin Requests
  /\ MaxRetries \in Nat /\ MaxFaults \in Nat
  /\ Faults \subseteq {"abort", "break", "fail", "closing", "cut"}

ASSUME TransportsAssumption ==
  Transports \subseteq [Requests -> {"sse", "websocket", "cached", "auto"}]

(* An input is a list of items.                                            *)
ASSUME InputsAssumption == \A new \in Inputs : new \in Seq(ToSet(new))

VARIABLES
  pc,            (* step of each request                                   *)
  request,       (* its transport, input, connection, what it has seen     *)
  outcome,       (* terminal event of its stream                           *)
  signal,        (* its AbortSignal: flag, listeners, those being called   *)
  connection,    (* CodexWebSocketConnection and its socket                *)
  cache,         (* codexWebSocketCache: the entry of the session          *)
  entry,         (* CachedCodexWebSocket, of each connection               *)
  asked,         (* server: the request a connection is answering          *)
  remembered,    (* server: the conversation of each finished response     *)
  faults         (* how often something went wrong                         *)

server == <<asked, remembered>>
vars   == <<pc, request, outcome, signal, connection, cache, entry, server, faults>>

NoContinuation == [input |-> <<>>, response |-> NoOne]
NotAsked       == [by |-> NoOne, context |-> <<>>, created |-> FALSE]

NewRequest(transport) ==
  [transport |-> transport, input |-> <<>>, use |-> NoOne, temporary |-> FALSE,
   started |-> FALSE, channel |-> <<>>, closed |-> FALSE, completion |-> "open",
   responseId |-> FALSE, attempt |-> 0, call |-> "none"]

Init ==
  /\ pc = [r \in Requests |-> "new"]
  /\ \E transport \in Transports :
       request = [r \in Requests |-> NewRequest(transport[r])]
  /\ outcome = [r \in Requests |-> "none"]
  /\ signal = [r \in Requests |-> [flag |-> "quiet", listeners |-> {}, calling |-> {}]]
  /\ connection = [c \in Requests |->
       [socket |-> "none", opened |-> "no", closed |-> FALSE, reader |-> NoOne,
        sawCompletion |-> FALSE, handling |-> "no"]]
  /\ cache = NoOne
  /\ entry = [c \in Requests |->
       [busy |-> FALSE, timer |-> FALSE, task |-> FALSE, continuation |-> NoContinuation]]
  /\ asked = [c \in Requests |-> NotAsked]
  /\ remembered = [r \in Requests |-> <<>>]
  /\ faults = 0

aborted(r) == signal[r].flag # "quiet"

Fault(f) == f \in Faults /\ faults < MaxFaults /\ faults' = faults + 1

Goto(r, step) == pc' = [pc EXCEPT ![r] = step]

-----------------------------------------------------------------------------
(* AbortSignal                                                             *)

Abort(r) ==
  /\ Fault("abort")
  /\ pc[r] # "ended" /\ ~aborted(r)
  /\ signal' = [signal EXCEPT ![r].flag = "set"]
  /\ UNCHANGED <<pc, request, outcome, connection, cache, entry, server>>

(* forEach walks over the listeners of this moment ... *)
SnapshotListeners(r) ==
  /\ signal[r].flag = "set"
  /\ signal' = [signal EXCEPT ![r].calling = signal[r].listeners,
       ![r].flag = IF signal[r].listeners = {} THEN "done" ELSE "walking"]
  /\ UNCHANGED <<pc, request, outcome, connection, cache, entry, server, faults>>

(* ... and calls them: one cancels the SSE call that is active, one closes *)
(* the connection the request is opening. *)
CallListeners(r) ==
  /\ signal[r].flag = "walking"
  /\ signal' = [signal EXCEPT ![r] = [flag |-> "done", listeners |-> {}, calling |-> {}]]
  /\ request' = [request EXCEPT ![r].call =
       IF "call" \in signal[r].calling /\ @ = "active" THEN "cancelled" ELSE @]
  /\ connection' = [connection EXCEPT ![r].closed = @ \/ "socket" \in signal[r].calling]
  /\ UNCHANGED <<pc, outcome, cache, entry, server, faults>>

RemoveListener(r, l) == signal' = [signal EXCEPT ![r].listeners = @ \ {l}]

-----------------------------------------------------------------------------
(* streamOpenAICodexResponses                                              *)

Begin(r) ==
  /\ pc[r] = "new"
  /\ IF aborted(r)
     THEN Goto(r, "failed") /\ UNCHANGED signal
     ELSE /\ signal' = [signal EXCEPT ![r].listeners = {"call"}]
          /\ Goto(r, IF request[r].transport = "sse" THEN "attempting" ELSE "acquiring")
  /\ UNCHANGED <<request, outcome, connection, cache, entry, server, faults>>

(* The only terminal event of the stream. *)
Finish(r) ==
  /\ pc[r] \in {"complete", "failed"}
  /\ outcome' = [outcome EXCEPT ![r] =
       IF aborted(r) THEN "aborted" ELSE IF pc[r] = "complete" THEN "done" ELSE "error"]
  /\ request' = [request EXCEPT ![r] =
       [NewRequest(@.transport) EXCEPT !.input = request[r].input, !.call = request[r].call]]
  /\ RemoveListener(r, "call")
  /\ Goto(r, "ended")
  /\ UNCHANGED <<connection, cache, entry, server, faults>>

-----------------------------------------------------------------------------
(* acquireCodexWebSocket                                                   *)

(* Mutant: a connection is taken whoever uses it. *)
OpenToAll(c) == c # NoOne /\ ~connection[c].closed

Reusable(c) == c # NoOne /\ ~entry[c].busy /\ ~connection[c].closed

(* A connection in use is not shared: the request opens one of its own.    *)
Acquire(r) ==
  /\ pc[r] = "acquiring"
  /\ IF Reusable(cache)
     THEN /\ entry' = [entry EXCEPT ![cache].busy = TRUE, ![cache].timer = FALSE]
          /\ request' = [request EXCEPT ![r].use = cache]
          /\ Goto(r, "sending")
          /\ UNCHANGED cache
     ELSE /\ request' = [request EXCEPT ![r].use = r,
               ![r].temporary = (cache # NoOne /\ entry[cache].busy)]
          /\ IF cache # NoOne /\ ~entry[cache].busy
             THEN /\ entry' = [entry EXCEPT ![cache].timer = FALSE]
                  /\ cache' = NoOne
             ELSE UNCHANGED <<entry, cache>>
          /\ Goto(r, "connecting")
  /\ UNCHANGED <<outcome, signal, connection, server, faults>>

(* connectCodexWebSocket, and addListener: the flag, the list, the flag    *)
(* again. *)
Connect(r) ==
  /\ pc[r] = "connecting"
  /\ connection' = [connection EXCEPT ![r].socket = "connecting", ![r].closed = aborted(r)]
  /\ Goto(r, IF aborted(r) THEN "opening" ELSE "adding")
  /\ UNCHANGED <<request, outcome, signal, cache, entry, server, faults>>

AddListener(r) ==
  /\ pc[r] = "adding"
  /\ signal' = [signal EXCEPT ![r].listeners = @ \cup {"socket"}]
  /\ Goto(r, "rechecking")
  /\ UNCHANGED <<request, outcome, connection, cache, entry, server, faults>>

RecheckFlag(r) ==
  /\ pc[r] = "rechecking"
  /\ IF aborted(r)
     THEN /\ RemoveListener(r, "socket")
          /\ connection' = [connection EXCEPT ![r].closed = TRUE]
     ELSE UNCHANGED <<signal, connection>>
  /\ Goto(r, "opening")
  /\ UNCHANGED <<request, outcome, cache, entry, server, faults>>

(* Mutant: the listener outlives the handshake. *)
KeepListening(r) ==
  /\ pc[r] = "opening"
  /\ connection[r].opened # "no"
  /\ Goto(r, IF connection[r].opened = "failed" THEN "failed"
             ELSE IF request[r].temporary THEN "sending" ELSE "inserting")
  /\ UNCHANGED <<request, outcome, signal, connection, cache, entry, server, faults>>

(* awaitOpen returns or throws. *)
AwaitOpen(r) ==
  /\ pc[r] = "opening"
  /\ connection[r].opened # "no"
  /\ RemoveListener(r, "socket")
  /\ Goto(r, IF connection[r].opened = "yes"
             THEN IF request[r].temporary THEN "sending" ELSE "inserting"
             ELSE IF request[r].transport = "auto" THEN "attempting" ELSE "failed")
  /\ UNCHANGED <<request, outcome, connection, cache, entry, server, faults>>

(* Two requests that found no entry both insert theirs. *)
Insert(r) ==
  /\ pc[r] = "inserting"
  /\ cache' = r
  /\ entry' = [entry EXCEPT ![r].busy = TRUE]
  /\ Goto(r, "sending")
  /\ UNCHANGED <<request, outcome, signal, connection, server, faults>>

-----------------------------------------------------------------------------
(* The release of a connection                                             *)

Closed(c) == [connection EXCEPT ![c].closed = TRUE, ![c].reader = NoOne]

WithoutEntry(c) == IF cache = c THEN NoOne ELSE cache

(* release(false), and the way on: an "auto" request that had not begun    *)
(* goes on over SSE. *)
GiveUp(r) ==
  LET c == request[r].use
  IN  /\ connection' = Closed(c)
      /\ entry' = [entry EXCEPT ![c].timer = FALSE, ![c].continuation = NoContinuation]
      /\ cache' = WithoutEntry(c)
      /\ Goto(r, IF request[r].transport = "auto" /\ ~request[r].started
                 THEN "attempting" ELSE "failed")

(* release(true): a connection of its own is closed, one that can be used  *)
(* again stays, with its timer. *)
Release(r, k) ==
  LET c == request[r].use
  IN  IF request[r].temporary \/ connection[c].closed
      THEN /\ connection' = Closed(c)
           /\ entry' = [entry EXCEPT ![c].timer = FALSE, ![c].continuation = k]
           /\ cache' = WithoutEntry(c)
      ELSE /\ connection' = [connection EXCEPT ![c].reader = NoOne]
           /\ entry' = [entry EXCEPT ![c].busy = FALSE, ![c].timer = TRUE,
                                     ![c].continuation = k]
           /\ UNCHANGED cache

-----------------------------------------------------------------------------
(* processCodexWebSocketStream                                             *)

IsCached(r) == request[r].transport = "cached" /\ ~request[r].temporary

(* Mutant: the input is not compared with the last one. *)
ContinuesAlways(new, k) == k.response # NoOne

(* getCachedCodexInputDelta: the last request and its answer are a prefix. *)
Continues(new, k) == k.response # NoOne /\ IsPrefix(Append(k.input, AnswerItem), new)

(* What the server takes for the conversation: the one it remembers, and   *)
(* the delta. *)
Conversation(r, new) ==
  LET k == entry[request[r].use].continuation
  IN  IF IsCached(r) /\ Continues(new, k)
      THEN remembered[k.response] \o SubSeq(new, Len(k.input) + 2, Len(new))
      ELSE new

(* start() and send(), which takes what nobody has closed, also after the  *)
(* server's closing frame: nobody reads it then. The input is the one the  *)
(* request was made with; nothing depends on it before. *)
Send(r) ==
  LET c == request[r].use
  IN  /\ pc[r] = "sending"
      /\ IF connection[c].closed
         THEN GiveUp(r) /\ UNCHANGED <<request, asked>>
         ELSE \E new \in Inputs :
              /\ request' = [request EXCEPT ![r].started = TRUE, ![r].input = new]
              /\ connection' = [connection EXCEPT ![c].reader = r, ![c].sawCompletion = FALSE]
              /\ entry' = IF IsCached(r) /\ ~Continues(new, entry[c].continuation)
                          THEN [entry EXCEPT ![c].continuation = NoContinuation] ELSE entry
              /\ asked' = IF connection[c].socket = "open"
                          THEN [asked EXCEPT ![c] = [by |-> r, created |-> FALSE,
                                                     context |-> Conversation(r, new)]]
                          ELSE asked
              /\ Goto(r, "checking")
              /\ UNCHANGED cache
      /\ UNCHANGED <<outcome, signal, remembered, faults>>

CheckAborted(r) ==
  /\ pc[r] = "checking"
  /\ IF aborted(r) THEN GiveUp(r)
     ELSE Goto(r, "receiving") /\ UNCHANGED <<connection, cache, entry>>
  /\ UNCHANGED <<request, outcome, signal, server, faults>>

(* receiveCatching and handleCodexEvent; an abort does not wake it. The     *)
(* events of a response name it. *)
Receive(r) ==
  LET channel == request[r].channel
  IN  /\ pc[r] = "receiving"
      /\ channel # <<>> \/ request[r].closed
      /\ IF channel # <<>> /\ Head(channel) = "failed"
         THEN GiveUp(r)
         ELSE /\ Goto(r, IF channel # <<>> /\ Head(channel) = "created"
                         THEN "checking" ELSE "awaiting")
              /\ UNCHANGED <<connection, cache, entry>>
      /\ request' = [request EXCEPT
           ![r].channel = IF @ = <<>> THEN @ ELSE Tail(@),
           ![r].responseId = @ \/ (channel # <<>> /\ Head(channel) # "failed")]
      /\ UNCHANGED <<outcome, signal, server, faults>>

(* Mutant: the completion is awaited, its error is not thrown. *)
AwaitOnly(r) ==
  /\ pc[r] = "awaiting"
  /\ request[r].completion # "open"
  /\ IF aborted(r) THEN GiveUp(r)
     ELSE Release(r, NoContinuation) /\ Goto(r, "complete")
  /\ UNCHANGED <<request, outcome, signal, server, faults>>

AwaitCompletion(r) ==
  /\ pc[r] = "awaiting"
  /\ request[r].completion # "open"
  /\ IF request[r].completion = "failed" \/ aborted(r) THEN GiveUp(r)
     ELSE /\ Release(r, IF IsCached(r) /\ request[r].responseId
                        THEN [input |-> request[r].input, response |-> r]
                        ELSE entry[request[r].use].continuation)
          /\ Goto(r, "complete")
  /\ UNCHANGED <<request, outcome, signal, server, faults>>

-----------------------------------------------------------------------------
(* The idle timer: cancelling a task that has begun has no effect.         *)

TimerFires(c) ==
  /\ entry[c].timer
  /\ entry' = [entry EXCEPT ![c].timer = FALSE, ![c].task = TRUE]
  /\ UNCHANGED <<pc, request, outcome, signal, connection, cache, server, faults>>

(* Mutant: the task does not look whether the connection is in use. *)
CloseAnyway(c) ==
  /\ entry[c].task
  /\ entry' = [entry EXCEPT ![c].task = FALSE]
  /\ connection' = [connection EXCEPT ![c].closed = TRUE]
  /\ cache' = WithoutEntry(c)
  /\ UNCHANGED <<pc, request, outcome, signal, server, faults>>

TimerTask(c) ==
  /\ entry[c].task
  /\ entry' = [entry EXCEPT ![c].task = FALSE]
  /\ IF entry[c].busy
     THEN UNCHANGED <<connection, cache>>
     ELSE /\ connection' = [connection EXCEPT ![c].closed = TRUE]
          /\ cache' = WithoutEntry(c)
  /\ UNCHANGED <<pc, request, outcome, signal, server, faults>>

-----------------------------------------------------------------------------
(* executeCodexRequestWithRetry and processCodexSse                        *)

Attempt(r) ==
  /\ pc[r] = "attempting"
  /\ Goto(r, IF aborted(r) THEN "failed" ELSE "calling")
  /\ UNCHANGED <<request, outcome, signal, connection, cache, entry, server, faults>>

(* An abort between the check and this step finds no call to cancel. *)
SetActiveCall(r) ==
  /\ pc[r] = "calling"
  /\ request' = [request EXCEPT ![r].call = "active"]
  /\ Goto(r, "executing")
  /\ UNCHANGED <<outcome, signal, connection, cache, entry, server, faults>>

(* A response, an error that is retried after a delay, one that is not. *)
Execute(r) ==
  /\ pc[r] = "executing"
  /\ IF request[r].call = "cancelled"
     THEN Goto(r, "failed") /\ UNCHANGED <<request, faults>>
     ELSE \/ Goto(r, "reading") /\ UNCHANGED <<request, faults>>
          \/ /\ Fault("fail")
             /\ request[r].attempt < MaxRetries /\ ~aborted(r)
             /\ request' = [request EXCEPT ![r].call = "none", ![r].attempt = @ + 1]
             /\ Goto(r, "attempting")
          \/ /\ Fault("fail")
             /\ Goto(r, "failed") /\ UNCHANGED request
  /\ UNCHANGED <<outcome, signal, connection, cache, entry, server>>

(* The events of an SSE response are read to the last one, to an error or  *)
(* to the end of the input, which is taken for the end of the response. *)
Read(r) ==
  /\ pc[r] = "reading"
  /\ IF request[r].call = "cancelled"
     THEN Goto(r, "failed") /\ UNCHANGED <<request, remembered, faults>>
     ELSE \/ /\ Goto(r, "complete")
             /\ request' = [request EXCEPT ![r].responseId = TRUE]
             /\ remembered' = [remembered EXCEPT ![r] = <<AnswerItem>>]
             /\ UNCHANGED faults
          \/ /\ Fault("cut")
             /\ Goto(r, "complete")
             /\ request' = [request EXCEPT ![r].call = "cut"]
             /\ UNCHANGED remembered
          \/ /\ Fault("fail")
             /\ Goto(r, "failed") /\ UNCHANGED <<request, remembered>>
  /\ UNCHANGED <<outcome, signal, connection, cache, entry, asked>>

-----------------------------------------------------------------------------
(* OkHttp and the server                                                   *)

(* complete() settles the completion of the request that reads the         *)
(* connection, if one does, and then closes the channel of the one that    *)
(* reads it then. *)
CompletionSettled(rs, r, how) ==
  IF r = NoOne \/ rs[r].completion # "open" THEN rs ELSE [rs EXCEPT ![r].completion = how]

EventsClosed(rs, r) == IF r = NoOne THEN rs ELSE [rs EXCEPT ![r].closed = TRUE]

(* No other request can come in between on a connection that is closed. *)
Completed(rs, r, how) == EventsClosed(CompletionSettled(rs, r, how), r)

onOpen(c) ==
  /\ connection[c].socket = "connecting"
  /\ connection' = [connection EXCEPT ![c].socket = "open", ![c].opened = "yes"]
  /\ UNCHANGED <<pc, request, outcome, signal, cache, entry, server, faults>>

(* Mutant: the request that reads is not told. *)
FailSilently(c) ==
  /\ connection[c].socket \in {"connecting", "open", "deaf"} /\ Fault("break")
  /\ connection' = [connection EXCEPT ![c].socket = "gone", ![c].closed = TRUE,
       ![c].opened = IF @ = "no" THEN "failed" ELSE @]
  /\ asked' = [asked EXCEPT ![c] = NotAsked]
  /\ UNCHANGED <<pc, request, outcome, signal, cache, entry, remembered>>

onFailure(c) ==
  /\ connection[c].socket \in {"connecting", "open", "deaf"} /\ Fault("break")
  /\ connection' = [connection EXCEPT ![c].socket = "gone", ![c].closed = TRUE,
       ![c].opened = IF @ = "no" THEN "failed" ELSE @]
  /\ request' = Completed(request, connection[c].reader, "failed")
  /\ asked' = [asked EXCEPT ![c] = NotAsked]
  /\ UNCHANGED <<pc, outcome, signal, cache, entry, remembered>>

(* The server's closing frame: the code does not listen for it. *)
ServerCloses(c) ==
  /\ Fault("closing") /\ connection[c].socket = "open"
  /\ connection' = [connection EXCEPT ![c].socket = "deaf"]
  /\ asked' = [asked EXCEPT ![c] = NotAsked]
  /\ UNCHANGED <<pc, request, outcome, signal, cache, entry, remembered>>

(* Both sides have closed, and the last message was handled. *)
onClosed(c) ==
  /\ connection[c].socket \in {"open", "deaf"} /\ connection[c].closed
  /\ connection[c].handling = "no"
  /\ connection' = [connection EXCEPT ![c].socket = "gone"]
  /\ request' = Completed(request, connection[c].reader,
                          IF connection[c].sawCompletion THEN "ok" ELSE "failed")
  /\ asked' = [asked EXCEPT ![c] = NotAsked]
  /\ UNCHANGED <<pc, outcome, signal, cache, entry, remembered, faults>>

Delivered(c, e) ==
  LET r == connection[c].reader
  IN  IF request[r].closed THEN request
      ELSE [request EXCEPT ![r].channel = Append(@, e)]

(* handleMessage on the one thread that reads the socket. What comes when  *)
(* nobody reads has no effect. *)
onMessage(c) ==
  /\ asked[c].by # NoOne /\ connection[c].reader # NoOne
  /\ connection[c].handling = "no"
  /\ \/ /\ ~asked[c].created
        /\ asked' = [asked EXCEPT ![c].created = TRUE]
        /\ request' = Delivered(c, "created")
        /\ UNCHANGED <<connection, remembered, faults>>
     \/ /\ asked[c].created
        /\ asked' = [asked EXCEPT ![c] = NotAsked]
        /\ remembered' = [remembered EXCEPT ![asked[c].by] = Append(asked[c].context, AnswerItem)]
        /\ request' = Delivered(c, "done")
        /\ connection' = [connection EXCEPT ![c].sawCompletion = TRUE, ![c].handling = "completing"]
        /\ UNCHANGED faults
     \/ /\ Fault("fail")
        /\ asked' = [asked EXCEPT ![c] = NotAsked]
        /\ request' = Delivered(c, "failed")
        /\ UNCHANGED <<connection, remembered>>
  /\ UNCHANGED <<pc, outcome, signal, cache, entry>>

(* complete(null) after the last event. *)
CompleteRequest(c) ==
  /\ connection[c].handling = "completing"
  /\ request' = CompletionSettled(request, connection[c].reader, "ok")
  /\ connection' = [connection EXCEPT ![c].handling = "closing"]
  /\ UNCHANGED <<pc, outcome, signal, cache, entry, server, faults>>

CloseEvents(c) ==
  /\ connection[c].handling = "closing"
  /\ request' = EventsClosed(request, connection[c].reader)
  /\ connection' = [connection EXCEPT ![c].handling = "no"]
  /\ UNCHANGED <<pc, outcome, signal, cache, entry, server, faults>>

-----------------------------------------------------------------------------
Advance(r) ==
  \/ Finish(r)
  \/ Acquire(r) \/ Connect(r) \/ AddListener(r) \/ RecheckFlag(r) \/ AwaitOpen(r) \/ Insert(r)
  \/ Send(r) \/ CheckAborted(r) \/ Receive(r) \/ AwaitCompletion(r)
  \/ Attempt(r) \/ SetActiveCall(r) \/ Execute(r) \/ Read(r)

Network(c) ==
  onOpen(c) \/ onMessage(c) \/ CompleteRequest(c) \/ CloseEvents(c) \/ onClosed(c)

Timer(c) == TimerFires(c) \/ TimerTask(c)

Next ==
  \E r \in Requests :
    \/ Begin(r) \/ Advance(r)
    \/ Abort(r) \/ SnapshotListeners(r) \/ CallListeners(r)
    \/ Network(r) \/ onFailure(r) \/ ServerCloses(r)
    \/ Timer(r)

Spec == Init /\ [][Next]_vars

-----------------------------------------------------------------------------
(* With a connection, until it is released. *)
Using == {"sending", "checking", "receiving", "awaiting"}

TypeOK ==
  /\ \A r \in Requests :
       /\ outcome[r] \in {"none", "done", "error", "aborted"}
       /\ (outcome[r] = "none") = (pc[r] # "ended")
       /\ request[r].attempt \in 0..MaxRetries
       /\ pc[r] \in Using => request[r].use # NoOne
       /\ "socket" \in signal[r].listeners => pc[r] \in {"rechecking", "opening"}
  /\ \A c \in Requests :
       /\ entry[c].timer => ~entry[c].busy
       /\ connection[c].reader # NoOne => connection[c].socket # "none"

(* A connection serves one request at a time, and its events go to that    *)
(* one: the cache never gives out a connection that is in use, whichever   *)
(* requests overlapped when it was filled. *)
OneRequestPerConnection ==
  /\ \A r, s \in Requests :
       pc[r] \in Using /\ pc[s] \in Using /\ request[r].use = request[s].use => r = s
  /\ \A r \in Requests :
       pc[r] \in Using \ {"sending"} => connection[request[r].use].reader = r

(* Nobody closes a connection under a request that uses it: not the idle   *)
(* timer, however late it runs, and not a listener of an abort that was    *)
(* meant for another one. *)
NobodyClosesUsed ==
  [][\A r \in Requests :
       LET c == request[r].use
       IN  pc[r] \in Using /\ ~connection[c].closed
             /\ connection'[c].closed /\ connection'[c].socket # "gone"
             => aborted(r) \/ pc'[r] \notin Using]_vars

(* The server answers the conversation the caller sent: what it remembers  *)
(* of the connection and the delta are the whole input, whatever was said, *)
(* taken back or failed since the last response. *)
DeltaIsFaithful ==
  \A c \in Requests : asked[c].by # NoOne => asked[c].context = request[asked[c].by].input

(* Done is told of a request that was answered to the end, and of an SSE   *)
(* response that ended early, which the code takes for complete; and the   *)
(* request has seen the answer, but for one that took over a connection    *)
(* whose last answer was still being handled. *)
DoneMeansAnswered ==
  \A r \in Requests :
    /\ outcome[r] = "done" => remembered[r] # <<>> \/ request[r].call = "cut"
    /\ pc[r] = "complete" =>
         request[r].responseId \/ request[r].call = "cut" \/ request[r].use \notin {r, NoOne}

(* An abort reaches a request that waits for its connection to open: when  *)
(* the listeners were called, the connection is closed. *)
AbortReachesConnection ==
  \A r \in Requests :
    signal[r].flag = "done" /\ pc[r] = "opening" => connection[r].closed

(* The events of a request that took over a connection were closed before  *)
(* its answer came: the end of the answer before it closed them. *)
ClosedEarly(r) == request[r].closed /\ request[r].use # r

(* A request that waits is waiting for something that will come: the       *)
(* handshake, the answer to what it sent, the end of the last message's    *)
(* handling, or the end of a connection that was closed. Otherwise the     *)
(* server has closed its side, of which the code is not told, or its       *)
(* events were closed early, and an answer that fails does not reach it.   *)
NobodyWaitsInVain ==
  \A r \in Requests :
    LET c == connection[request[r].use]
    IN  /\ pc[r] = "opening" => c.socket = "connecting" \/ c.opened # "no"
        /\ pc[r] = "receiving" /\ request[r].channel = <<>> /\ ~request[r].closed
             => asked[request[r].use].by = r \/ c.socket = "deaf"
        /\ pc[r] = "awaiting" /\ request[r].completion = "open"
             => c.handling = "completing" \/ ClosedEarly(r)

(* No connection is left open: one that nobody uses is closed, or has a    *)
(* timer or its task to close it, also when it is not the one in the cache *)
(* any more. *)
IdleIsWatched ==
  \A c \in Requests :
    \/ connection[c].socket \in {"none", "gone"} \/ connection[c].closed
    \/ entry[c].timer \/ entry[c].task
    \/ \E r \in Requests : request[r].use = c /\ pc[r] \notin {"new", "complete", "failed", "ended"}

(* A connection in use has one user, and one without a user has somebody   *)
(* to close it. *)
ConnectionsAreOwned == OneRequestPerConnection /\ IdleIsWatched

(* Whatever a request waits for is on its way, and an abort reaches it     *)
(* while it connects. *)
WaitsEnd == AbortReachesConnection /\ NobodyWaitsInVain
=============================================================================
