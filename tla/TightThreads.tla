---------------------------- MODULE TightThreads ----------------------------
(***************************************************************************)
(* The threads of the Tight encoder (tight.c 283-473).  The X server's     *)
(* thread cuts a rectangle into bands, encodes the first one itself into   *)
(* the stream and leaves the others to worker threads, which encode into   *)
(* buffers of their own; the buffers are written out when all workers are  *)
(* done.  The two sides synchronise on a pair of mutexes per worker that   *)
(* are used as binary semaphores: "ready" is unlocked by the server for    *)
(* the worker, "done" by the worker for the server.                        *)
(*                                                                         *)
(* Encoding is reduced to who encodes what with which zlib streams.  The   *)
(* creation of a thread is assumed to succeed.                             *)
(***************************************************************************)
EXTENDS Integers, Sequences

CONSTANTS
  Clients,
  NumThreads,      \* rfbNumThreads
  FailingThreads,  \* the threads in which zlib or libjpeg-turbo may fail
  MaxRects         \* bound: the number of rectangles

Threads == 0 .. NumThreads - 1
Workers == 1 .. NumThreads - 1

ASSUME TightThreadsAssumption ==
  /\ Clients # {}
  /\ NumThreads \in 1 .. 8 /\ FailingThreads \subseteq Threads
  /\ MaxRects \in Nat

VARIABLES
  open,        \* the clients that are connected
  threadInit,
  main,        \* the X server's thread
  worker,      \* the worker threads: where they are, which rectangle they encode
  param,       \* tparam
  ready, done, \* the mutexes: TRUE when locked
  sent,        \* what was written of the rectangle in hand
  failed       \* history: the threads in which an encoder has failed

vars == <<open, threadInit, main, worker, param, ready, done, sent, failed>>

Band(rect, i) == [rect |-> rect, band |-> i]
AnyClient == CHOOSE c \in Clients : TRUE

\* memset(tparam, 0).  bands determines baseStreamId and nStreams, buf is
\* updateBuf up to ublen.
NoParam == [client |-> AnyClient, rect |-> 0, bands |-> 0, status |-> FALSE,
            deadyet |-> FALSE, buf |-> <<>>]

\* Mutant: every thread takes the rest of the streams, not only the last.
ZlibStreamsToEnd(i, bands) ==
  LET n    == IF bands < 4 THEN bands ELSE 4
      base == (4 \div n) * i
  IN  IF i >= 4 THEN {} ELSE base .. 3

\* The four zlib streams of a client are shared out among the threads; the
\* fifth thread and the following ones do without zlib (CompressData).
ZlibStreams(i, bands) ==
  LET n    == IF bands < 4 THEN bands ELSE 4
      base == (4 \div n) * i
      last == IF i = n - 1 THEN 3 ELSE base + (4 \div n) - 1
  IN  IF i >= 4 THEN {} ELSE base .. last

-----------------------------------------------------------------------------
Init ==
  /\ open = Clients /\ threadInit = FALSE
  /\ main = [pc |-> "idle", client |-> AnyClient, rect |-> 0, bands |-> 0,
             next |-> 1, status |-> TRUE, delivered |-> FALSE]
  /\ worker = [i \in Workers |-> [pc |-> "none", rect |-> 0]]
  /\ param = [i \in Threads |-> NoParam]
  /\ ready = [i \in Workers |-> TRUE] /\ done = [i \in Workers |-> TRUE]
  /\ sent = <<>> /\ failed = {}

Connect(c) ==
  /\ main.pc = "idle" /\ c \notin open
  /\ open' = open \cup {c}
  /\ UNCHANGED <<threadInit, main, worker, param, ready, done, sent, failed>>

\* InitThreads, when it is needed.
InitThreads ==
  /\ threadInit' = TRUE
  /\ worker' = IF threadInit THEN worker
               ELSE [i \in Workers |-> [pc |-> "check", rect |-> 0]]

\* A rectangle of client c is cut into bands and the workers are released.
Begin(c, bands) ==
  /\ main.pc = "idle" /\ c \in open /\ main.rect < MaxRects
  /\ InitThreads
  /\ main' = [pc |-> "own", client |-> c, rect |-> main.rect + 1,
              bands |-> bands, next |-> 1, status |-> TRUE,
              delivered |-> FALSE]
  /\ param' = [i \in Threads |->
                 IF i >= bands THEN param[i]
                 ELSE [param[i] EXCEPT !.client = c, !.rect = main.rect + 1,
                                       !.bands = bands, !.status = TRUE]]
  /\ ready' = [i \in Workers |-> i >= bands /\ ready[i]]
  /\ sent' = <<>>
  /\ UNCHANGED <<open, done, failed>>

\* rfbCloseClient, after a write error.
CloseClient ==
  /\ main' = [main EXCEPT !.pc = "shutdown", !.next = 1]
  /\ UNCHANGED <<open, threadInit, worker, param, ready, done, sent, failed>>

\* The server encodes its own band, which goes to the client as the buffer
\* fills.
OwnBand ==
  /\ main.pc = "own"
  /\ \/ /\ sent' = Append(sent, Band(main.rect, 0))
        /\ main' = IF main.bands = 1
                   THEN [main EXCEPT !.pc = "idle", !.delivered = TRUE]
                   ELSE [main EXCEPT !.pc = "await"]
        /\ UNCHANGED <<open, threadInit, worker, param, ready, done, failed>>
     \/ /\ 0 \in FailingThreads
        /\ main' = [main EXCEPT !.pc = "idle"]
        /\ failed' = failed \cup {0}
        /\ UNCHANGED <<open, threadInit, worker, param, ready, done, sent>>
     \/ CloseClient

\* Mutant: the last worker is not waited for.
AwaitAllButLast ==
  /\ main.pc = "await"
  /\ \/ main.next = main.bands - 1 /\ UNCHANGED done
     \/ ~done[main.next] /\ done' = [done EXCEPT ![main.next] = TRUE]
  /\ LET status == main.status /\ param[main.next].status
     IN  main' = IF main.next < main.bands - 1
                 THEN [main EXCEPT !.next = @ + 1, !.status = status]
                 ELSE [main EXCEPT !.next = 1, !.status = status,
                                   !.pc = IF status THEN "flush" ELSE "idle"]
  /\ UNCHANGED <<open, threadInit, worker, param, ready, sent, failed>>

\* It waits for the workers, one after the other.
Await ==
  /\ main.pc = "await"
  /\ ~done[main.next]
  /\ done' = [done EXCEPT ![main.next] = TRUE]
  /\ LET status == main.status /\ param[main.next].status
     IN  main' = IF main.next < main.bands - 1
                 THEN [main EXCEPT !.next = @ + 1, !.status = status]
                 ELSE [main EXCEPT !.next = 1, !.status = status,
                                   !.pc = IF status THEN "flush" ELSE "idle"]
  /\ UNCHANGED <<open, threadInit, worker, param, ready, sent, failed>>

\* It writes their buffers to the client, in order.
Flush ==
  /\ main.pc = "flush"
  /\ \/ /\ sent' = sent \o param[main.next].buf
        /\ param' = [param EXCEPT ![main.next].buf = <<>>]
        /\ main' = IF main.next < main.bands - 1
                   THEN [main EXCEPT !.next = @ + 1]
                   ELSE [main EXCEPT !.pc = "idle", !.delivered = TRUE]
        /\ UNCHANGED <<open, threadInit, worker, ready, done, failed>>
     \/ CloseClient

-----------------------------------------------------------------------------
(***************************************************************************)
(* rfbClientConnectionGone: ShutdownTightThreads dismisses and joins one   *)
(* worker after the other, whichever client is gone, before the client's   *)
(* record is freed.                                                        *)
(***************************************************************************)
Disconnect(c) ==
  /\ main.pc = "idle" /\ c \in open
  /\ main' = [main EXCEPT !.pc = "shutdown", !.client = c, !.next = 1,
                          !.delivered = FALSE]
  /\ UNCHANGED <<open, threadInit, worker, param, ready, done, sent, failed>>

\* Mutant: the worker is dismissed but not joined.
DismissOnly ==
  /\ main.pc = "shutdown" /\ threadInit /\ main.next < NumThreads
  /\ param' = [param EXCEPT ![main.next].deadyet = TRUE]
  /\ ready' = [ready EXCEPT ![main.next] = FALSE]
  /\ main' = [main EXCEPT !.next = @ + 1]
  /\ UNCHANGED <<open, threadInit, worker, done, sent, failed>>

Dismiss ==
  /\ main.pc = "shutdown" /\ threadInit /\ main.next < NumThreads
  /\ param' = [param EXCEPT ![main.next].deadyet = TRUE]
  /\ ready' = [ready EXCEPT ![main.next] = FALSE]
  /\ main' = [main EXCEPT !.pc = "join"]
  /\ UNCHANGED <<open, threadInit, worker, done, sent, failed>>

Join ==
  /\ main.pc = "join" /\ worker[main.next].pc = "exited"
  /\ worker' = [worker EXCEPT ![main.next] = [pc |-> "none", rect |-> 0]]
  /\ main' = [main EXCEPT !.pc = "shutdown", !.next = @ + 1]
  /\ UNCHANGED <<open, threadInit, param, ready, done, sent, failed>>

\* All workers are gone; the client is freed.
ClientConnectionGone ==
  /\ main.pc = "shutdown" /\ (threadInit => main.next = NumThreads)
  /\ threadInit' = FALSE
  /\ param' = [i \in Threads |-> NoParam]
  /\ ready' = [i \in Workers |-> TRUE] /\ done' = [i \in Workers |-> TRUE]
  /\ open' = open \ {main.client}
  /\ main' = [main EXCEPT !.pc = "idle"]
  /\ UNCHANGED <<worker, sent, failed>>

-----------------------------------------------------------------------------
(***************************************************************************)
(* TightThreadFunc, the loop of a worker.                                  *)
(***************************************************************************)
At(i, pc) == worker[i].pc = pc
GoTo(i, pc) == worker' = [worker EXCEPT ![i].pc = pc]

Check(i) ==
  /\ At(i, "check")
  /\ GoTo(i, IF param[i].deadyet THEN "exited" ELSE "wait")
  /\ UNCHANGED <<open, threadInit, main, param, ready, done, sent, failed>>

Take(i) ==
  /\ At(i, "wait") /\ ~ready[i]
  /\ ready' = [ready EXCEPT ![i] = TRUE]
  /\ IF param[i].deadyet THEN GoTo(i, "exited")
     ELSE worker' = [worker EXCEPT ![i] = [pc |-> "run",
                                           rect |-> param[i].rect]]
  /\ UNCHANGED <<open, threadInit, main, param, done, sent, failed>>

\* Mutant: a worker that failed takes the same band again.
EncodeAgain(i) ==
  /\ At(i, "run")
  /\ \/ /\ param' = [param EXCEPT ![i].status = TRUE,
                                  ![i].buf = Append(@, Band(worker[i].rect, i))]
        /\ GoTo(i, "signal") /\ UNCHANGED <<ready, failed>>
     \/ /\ i \in FailingThreads
        /\ ready' = [ready EXCEPT ![i] = FALSE] /\ failed' = failed \cup {i}
        /\ GoTo(i, "check") /\ UNCHANGED param
  /\ UNCHANGED <<open, threadInit, main, done, sent>>

\* SendRectEncodingTight.  Even a band that fails leaves a header in the buffer.
Encode(i) ==
  /\ At(i, "run")
  /\ \E status \in {TRUE} \cup {i \notin FailingThreads} :
       /\ param' = [param EXCEPT ![i].status = status,
                                 ![i].buf = Append(@, Band(worker[i].rect, i))]
       /\ failed' = IF status THEN failed ELSE failed \cup {i}
  /\ GoTo(i, "signal")
  /\ UNCHANGED <<open, threadInit, main, ready, done, sent>>

Signal(i) ==
  /\ At(i, "signal")
  /\ done' = [done EXCEPT ![i] = FALSE]
  /\ GoTo(i, "check")
  /\ UNCHANGED <<open, threadInit, main, param, ready, sent, failed>>

-----------------------------------------------------------------------------
Server == OwnBand \/ Await \/ Flush \/ Dismiss \/ Join \/ ClientConnectionGone
Worker(i) == Check(i) \/ Take(i) \/ Encode(i) \/ Signal(i)

Next ==
  \/ \E c \in Clients, bands \in 1 .. NumThreads : Begin(c, bands)
  \/ \E c \in Clients : Connect(c) \/ Disconnect(c)
  \/ Server
  \/ \E i \in Workers : Worker(i)

Spec == Init /\ [][Next]_vars

\* Every thread runs; encoding ends, and a write ends after rfbMaxClientWait.
FairSpec ==
  Spec /\ WF_vars(Server) /\ \A i \in Workers : WF_vars(Worker(i))

-----------------------------------------------------------------------------
ServerPCs == {"idle", "own", "await", "flush", "shutdown", "join"}
WorkerPCs == {"none", "check", "wait", "run", "signal", "exited"}
Bands == [rect: Nat, band: Threads]

Typed ==
  /\ open \subseteq Clients /\ threadInit \in BOOLEAN
  /\ main \in [pc: ServerPCs, client: Clients, rect: Nat,
               bands: 0 .. NumThreads, next: 1 .. NumThreads,
               status: BOOLEAN, delivered: BOOLEAN]
  /\ worker \in [Workers -> [pc: WorkerPCs, rect: Nat]]
  /\ param \in [Threads -> [client: Clients, rect: Nat, bands: 0 .. NumThreads,
                            status: BOOLEAN, deadyet: BOOLEAN,
                            buf: Seq(Bands)]]
  /\ ready \in [Workers -> BOOLEAN] /\ done \in [Workers -> BOOLEAN]
  /\ sent \in Seq(Bands)

(***************************************************************************)
(* The variables have their types; a worker's buffer never holds the       *)
(* output of more than one band, as long as no encoder has failed.         *)
(***************************************************************************)
TypeOK ==
  /\ Typed /\ failed \subseteq Threads
  /\ failed = {} => \A i \in Workers : Len(param[i].buf) <= 1

Encoding(i) == IF i = 0 THEN main.pc = "own" ELSE At(i, "run")

(***************************************************************************)
(* "Multiple threads can't use the same Zlib stream" (tight.c 1132-1139):  *)
(* threads that encode for the same client at the same time have different *)
(* streams, though the rectangles they were given them for may have been   *)
(* cut into different numbers of bands.  This holds until the encoder has  *)
(* failed in the server's own thread, which then does not wait for the     *)
(* workers it has released.                                                *)
(***************************************************************************)
StreamsNotShared ==
  0 \notin failed =>
  \A i, j \in Threads :
    /\ i # j /\ Encoding(i) /\ Encoding(j)
    /\ param[i].client = param[j].client
    => ZlibStreams(i, param[i].bands) \cap ZlibStreams(j, param[j].bands) = {}

(***************************************************************************)
(* A worker that encodes does it for a client whose record is still there, *)
(* even if the server has given up on the rectangle: a client is freed     *)
(* only after the workers were joined (rfbserver.c 523).                   *)
(***************************************************************************)
ClientOutlivesWorkers ==
  \A i \in Workers : At(i, "run") => param[i].client \in open

(***************************************************************************)
(* The bands of a rectangle reach its client once each and in order, or    *)
(* the client is dropped, until an encoder fails: the threads implement    *)
(* SequentialEncoder.                                                      *)
(***************************************************************************)
Closing == main.pc \in {"shutdown", "join"}

Sequential == INSTANCE SequentialEncoder WITH
  open <- IF Closing THEN open \ {main.client} ELSE open,
  job <- [rect |-> main.rect, bands |-> main.bands, client |-> main.client,
          busy |-> main.pc \in {"own", "await", "flush"},
          delivered |-> main.delivered],
  broken <- failed # {}

EncodesSequentially == Sequential!Spec

(***************************************************************************)
(* The server's thread, and with it the whole X server, is never stuck in  *)
(* the encoder: neither waiting for a worker that has nothing to say nor   *)
(* joining one that does not notice, not even after an encoder has failed. *)
(***************************************************************************)
ServerReturns == []<>(main.pc = "idle")
=============================================================================
