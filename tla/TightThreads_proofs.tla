------------------------ MODULE TightThreads_proofs ------------------------
(***************************************************************************)
(* The Tight encoder's threads, for any number of threads and clients.  A  *)
(* client's record outlives the workers that encode for it, whatever       *)
(* fails.  Until the server's own encoder fails, no two threads use the    *)
(* same zlib stream.  Until any encoder fails, the threads implement       *)
(* SequentialEncoder, and a worker's buffer holds one band at most.        *)
(***************************************************************************)
EXTENDS TightThreads, TLAPS

-----------------------------------------------------------------------------
(***************************************************************************)
(* Types, with the range of main.next in each phase, without which the     *)
(* types are not inductive.                                                *)
(***************************************************************************)
InRange ==
  /\ main.pc = "own" => main.bands >= 1 /\ main.next = 1
  /\ main.pc \in {"await", "flush"} => main.next < main.bands
  /\ main.pc = "join" => main.next < NumThreads /\ threadInit

TypeInv == Typed /\ InRange

MainType == [pc: ServerPCs, client: Clients, rect: Nat, bands: 0 .. NumThreads,
             next: 1 .. NumThreads, status: BOOLEAN, delivered: BOOLEAN]
WorkerType == [pc: WorkerPCs, rect: Nat]
ParamType == [client: Clients, rect: Nat, bands: 0 .. NumThreads,
              status: BOOLEAN, deadyet: BOOLEAN, buf: Seq(Bands)]

\* Typed, with the types of the records as names.
LEMMA TypedUnfolded ==
  Typed <=>
    /\ open \subseteq Clients /\ threadInit \in BOOLEAN
    /\ main \in MainType
    /\ worker \in [Workers -> WorkerType]
    /\ param \in [Threads -> ParamType]
    /\ ready \in [Workers -> BOOLEAN] /\ done \in [Workers -> BOOLEAN]
    /\ sent \in Seq(Bands)
  BY Zenon DEF Typed, MainType, WorkerType, ParamType

\* The same of the next state.
LEMMA TypedUnfoldedNext ==
  Typed' <=>
    /\ open' \subseteq Clients /\ threadInit' \in BOOLEAN
    /\ main' \in MainType
    /\ worker' \in [Workers -> WorkerType]
    /\ param' \in [Threads -> ParamType]
    /\ ready' \in [Workers -> BOOLEAN] /\ done' \in [Workers -> BOOLEAN]
    /\ sent' \in Seq(Bands)
  BY Zenon DEF Typed, MainType, WorkerType, ParamType

\* A cleared tparam entry has the type of an entry.
LEMMA NoParamTyped == NoParam \in ParamType
<1>1. AnyClient \in Clients
  BY TightThreadsAssumption DEF AnyClient
<1>2. FALSE \in BOOLEAN /\ <<>> \in Seq(Bands) /\ 0 \in 0 .. NumThreads
  BY TightThreadsAssumption
<1> QED
  BY <1>1, <1>2 DEF NoParam, ParamType

\* The initial state has its types.
LEMMA InitTyped == Init => TypeInv
<1> SUFFICES ASSUME Init PROVE TypeInv
  OBVIOUS
<1> USE TightThreadsAssumption DEF Init, Threads, Workers
<1>1. AnyClient \in Clients
  BY DEF AnyClient
<1>2. main \in MainType
  BY <1>1 DEF ServerPCs, MainType
<1>3. worker \in [Workers -> WorkerType]
  BY DEF WorkerPCs, WorkerType
<1>4. param \in [Threads -> ParamType]
  BY NoParamTyped
<1>5. sent \in Seq(Bands)
  OBVIOUS
<1>6. Typed
  BY <1>2, <1>3, <1>4, <1>5, TypedUnfolded
<1> QED
  BY <1>6 DEF TypeInv, InRange

\* The updates of main that occur keep its type.
LEMMA MainUpdates ==
  ASSUME main \in MainType
  PROVE  /\ \A pc \in ServerPCs : [main EXCEPT !.pc = pc] \in MainType
         /\ \A n \in 1 .. NumThreads : [main EXCEPT !.next = n] \in MainType
         /\ \A pc \in ServerPCs, n \in 1 .. NumThreads :
              [main EXCEPT !.pc = pc, !.next = n] \in MainType
         /\ \A pc \in ServerPCs, d \in BOOLEAN :
              [main EXCEPT !.pc = pc, !.delivered = d] \in MainType
         /\ \A n \in 1 .. NumThreads, s \in BOOLEAN :
              [main EXCEPT !.next = n, !.status = s] \in MainType
         /\ \A pc \in ServerPCs, n \in 1 .. NumThreads, s \in BOOLEAN :
              [main EXCEPT !.next = n, !.status = s, !.pc = pc] \in MainType
         /\ \A pc \in ServerPCs, c \in Clients, n \in 1 .. NumThreads,
               d \in BOOLEAN :
              [main EXCEPT !.pc = pc, !.client = c, !.next = n, !.delivered = d]
                \in MainType
  BY DEF MainType

\* The updates of an entry of tparam that occur keep its type.
LEMMA ParamUpdates ==
  ASSUME NEW p \in ParamType
  PROVE  /\ \A c \in Clients, r \in Nat, n \in 0 .. NumThreads, s \in BOOLEAN :
              [p EXCEPT !.client = c, !.rect = r, !.bands = n, !.status = s]
                \in ParamType
         /\ \A b \in Seq(Bands) : [p EXCEPT !.buf = b] \in ParamType
         /\ \A s \in BOOLEAN : [p EXCEPT !.deadyet = s] \in ParamType
         /\ \A s \in BOOLEAN, b \in Seq(Bands) :
              [p EXCEPT !.status = s, !.buf = b] \in ParamType
  BY DEF ParamType

\* A worker's step to another place keeps the type of worker.
LEMMA GoToTyped ==
  ASSUME worker \in [Workers -> WorkerType], NEW i, NEW pc \in WorkerPCs,
         GoTo(i, pc)
  PROVE  worker' \in [Workers -> WorkerType]
  BY DEF GoTo, WorkerType

\* Each step of the server's thread keeps the types and ranges.
LEMMA BeginTyped ==
  ASSUME TypeInv, NEW c \in Clients, NEW bands \in 1 .. NumThreads,
         Begin(c, bands)
  PROVE  TypeInv'
<1> USE TightThreadsAssumption DEF TypeInv, Threads, Workers
<1> DEFINE T == TRUE
           F == FALSE
<1>1. T \in BOOLEAN /\ F \in BOOLEAN
  OBVIOUS
<1> HIDE DEF T, F
<1>2. main' = [pc |-> "own", client |-> c, rect |-> main.rect + 1,
               bands |-> bands, next |-> 1, status |-> T, delivered |-> F]
  BY DEF Begin, T, F
<1>3. main.rect \in Nat
  BY TypedUnfolded DEF MainType
<1>4. main' \in MainType
  BY <1>1, <1>2, <1>3 DEF MainType, ServerPCs
<1>5. worker' \in [Workers -> WorkerType]
  BY TypedUnfolded DEF Begin, InitThreads, WorkerType, WorkerPCs
<1>6. param' \in [Threads -> ParamType]
  <2>1. ASSUME NEW i \in Threads
        PROVE  [param[i] EXCEPT !.client = c, !.rect = main.rect + 1,
                                !.bands = bands, !.status = T] \in ParamType
    <3>1. param[i] \in ParamType
      BY TypedUnfolded
    <3>2. main.rect + 1 \in Nat /\ bands \in 0 .. NumThreads
      BY <1>3
    <3> QED
      BY <1>1, <3>1, <3>2, ParamUpdates
  <2>2. param' = [i \in Threads |->
                    IF i >= bands THEN param[i]
                    ELSE [param[i] EXCEPT !.client = c, !.rect = main.rect + 1,
                                          !.bands = bands, !.status = T]]
    BY DEF Begin, T
  <2> QED
    BY <2>1, <2>2, TypedUnfolded
<1>7. ready' \in [Workers -> BOOLEAN]
  BY TypedUnfolded DEF Begin
<1>8. /\ sent' \in Seq(Bands) /\ open' \subseteq Clients
      /\ done' \in [Workers -> BOOLEAN] /\ threadInit' \in BOOLEAN
  <2>1. <<>> \in Seq(Bands)
    OBVIOUS
  <2>2. sent' = <<>> /\ UNCHANGED <<open, done>> /\ threadInit' = TRUE
    BY DEF Begin, InitThreads
  <2> QED
    BY <2>1, <2>2, TypedUnfolded
<1>9. Typed'
  BY <1>4, <1>5, <1>6, <1>7, <1>8, TypedUnfoldedNext
<1>10. InRange'
  BY <1>2 DEF InRange
<1> QED
  BY <1>9, <1>10

\* A write error keeps them.
LEMMA CloseTyped == ASSUME TypeInv, CloseClient PROVE TypeInv'
<1> USE TightThreadsAssumption DEF TypeInv, CloseClient
<1>1. "shutdown" \in ServerPCs /\ 1 \in 1 .. NumThreads
  BY DEF ServerPCs
<1>2. main \in MainType /\ main' = [main EXCEPT !.pc = "shutdown", !.next = 1]
  BY TypedUnfolded
<1>3. /\ open \subseteq Clients /\ threadInit \in BOOLEAN
      /\ worker \in [Workers -> WorkerType]
      /\ param \in [Threads -> ParamType]
      /\ ready \in [Workers -> BOOLEAN] /\ done \in [Workers -> BOOLEAN]
      /\ sent \in Seq(Bands)
  BY TypedUnfolded, ZenonT(60)
<1>4. main' \in MainType
  <2>1. main \in MainType
    BY <1>2
  <2>2. \A pc \in ServerPCs, n \in 1 .. NumThreads :
          [main EXCEPT !.pc = pc, !.next = n] \in MainType
    BY <2>1, MainUpdates, ZenonT(60)
  <2> QED
    BY <1>1, <1>2, <2>2, Zenon
<1>5. Typed'
  <2>1. UNCHANGED <<open, threadInit, worker, param, ready, done, sent>>
    OBVIOUS
  <2>2. /\ open' \subseteq Clients /\ threadInit' \in BOOLEAN
        /\ worker' \in [Workers -> WorkerType]
        /\ param' \in [Threads -> ParamType]
        /\ ready' \in [Workers -> BOOLEAN] /\ done' \in [Workers -> BOOLEAN]
        /\ sent' \in Seq(Bands)
    BY <1>3, <2>1
  <2> QED
    BY <1>4, <2>2, TypedUnfoldedNext, Zenon
<1>6. main'.pc = "shutdown"
  BY TypedUnfolded DEF MainType
<1> QED
  BY <1>5, <1>6 DEF InRange

\* The server's own band keeps them.
LEMMA OwnBandTyped == ASSUME TypeInv, OwnBand PROVE TypeInv'
<1> USE TightThreadsAssumption DEF TypeInv, Threads, Workers
<1> DEFINE T == TRUE
<1>1. T \in BOOLEAN
  OBVIOUS
<1> HIDE DEF T
<1>2. main \in MainType /\ sent \in Seq(Bands) /\ main.rect \in Nat
      /\ main.bands \in 1 .. NumThreads /\ main.next = 1
  BY TypedUnfolded DEF MainType, OwnBand, InRange
<1>3. CASE /\ sent' = Append(sent, Band(main.rect, 0))
           /\ main' = IF main.bands = 1
                      THEN [main EXCEPT !.pc = "idle", !.delivered = TRUE]
                      ELSE [main EXCEPT !.pc = "await"]
           /\ UNCHANGED <<open, threadInit, worker, param, ready, done>>
  <2>1. Band(main.rect, 0) \in Bands
    BY <1>2 DEF Band, Bands
  <2>2. sent' \in Seq(Bands)
    BY <1>2, <1>3, <2>1
  <2>3. main' = IF main.bands = 1
                THEN [main EXCEPT !.pc = "idle", !.delivered = T]
                ELSE [main EXCEPT !.pc = "await"]
    BY <1>3 DEF T
  <2>4. main' \in MainType
    BY <1>1, <1>2, <2>3 DEF MainType, ServerPCs
  <2>5. Typed'
    BY <1>3, <2>2, <2>4, TypedUnfolded, TypedUnfoldedNext
  <2>6. InRange'
    BY <1>2, <2>3 DEF InRange, MainType
  <2> QED
    BY <2>5, <2>6
<1>4. CASE /\ main' = [main EXCEPT !.pc = "idle"]
           /\ UNCHANGED <<open, threadInit, worker, param, ready, done, sent>>
  <2>1. main' \in MainType /\ main'.pc = "idle"
    BY <1>2, <1>4 DEF MainType, ServerPCs
  <2>2. Typed'
    BY <1>4, <2>1, TypedUnfolded, TypedUnfoldedNext
  <2> QED
    BY <2>1, <2>2 DEF InRange
<1>5. CASE CloseClient
  BY <1>5, CloseTyped
<1> QED
  BY <1>3, <1>4, <1>5 DEF OwnBand

\* Waiting for a worker keeps them.
LEMMA AwaitTyped == ASSUME TypeInv, Await PROVE TypeInv'
<1> USE TightThreadsAssumption DEF TypeInv, Threads, Workers
<1> DEFINE status == main.status /\ param[main.next].status
<1>1. status \in BOOLEAN
  OBVIOUS
<1> HIDE DEF status
<1>2. main \in MainType /\ main.next < main.bands /\ main.pc = "await"
  BY TypedUnfolded DEF Await, InRange
<1>3. main' = IF main.next < main.bands - 1
              THEN [main EXCEPT !.next = @ + 1, !.status = status]
              ELSE [main EXCEPT !.next = 1, !.status = status,
                                !.pc = IF status THEN "flush" ELSE "idle"]
  BY DEF Await, status
<1>4. main' \in MainType
  <2>1. {"flush", "idle"} \subseteq ServerPCs /\ 1 \in 1 .. NumThreads
    BY DEF ServerPCs
  <2>2. main.next < main.bands - 1 => main.next + 1 \in 1 .. NumThreads
    BY <1>2 DEF MainType
  <2>3. (IF status THEN "flush" ELSE "idle") \in ServerPCs
    BY <2>1, <1>1
  <2> QED
    BY <1>1, <1>2, <1>3, <2>1, <2>2, <2>3, MainUpdates
<1>5. done' \in [Workers -> BOOLEAN]
  BY TypedUnfolded DEF Await
<1>6. Typed'
  BY <1>4, <1>5, TypedUnfolded, TypedUnfoldedNext DEF Await
<1>7. InRange'
  <2>1. main'.pc \in {"await", "flush", "idle"} /\ main'.bands = main.bands
    BY <1>2, <1>3 DEF MainType
  <2>2. main.next < main.bands - 1 => main'.next = main.next + 1
    BY <1>2, <1>3 DEF MainType
  <2>3. ~(main.next < main.bands - 1) => main'.next = 1
    BY <1>2, <1>3 DEF MainType
  <2>4. main'.next < main.bands
    BY <1>2, <2>2, <2>3 DEF MainType
  <2> QED
    BY <2>1, <2>4 DEF InRange
<1> QED
  BY <1>6, <1>7

\* Writing a buffer out keeps them.
LEMMA FlushTyped == ASSUME TypeInv, Flush PROVE TypeInv'
<1> USE TightThreadsAssumption DEF TypeInv, Threads, Workers
<1>1. CASE CloseClient
  BY <1>1, CloseTyped
<1>2. CASE ~CloseClient
  <2> DEFINE T == TRUE
             E == <<>>
             k == main.next
  <2>1. T \in BOOLEAN /\ E \in Seq(Bands)
    OBVIOUS
  <2>2. /\ main \in MainType /\ k < main.bands /\ main.pc = "flush"
        /\ k \in Threads /\ param[k] \in ParamType
    BY TypedUnfolded DEF Flush, InRange, MainType
  <2>3. /\ sent' = sent \o param[k].buf
        /\ param' = [param EXCEPT ![k] = [param[k] EXCEPT !.buf = E]]
        /\ main' = IF k < main.bands - 1
                   THEN [main EXCEPT !.next = k + 1]
                   ELSE [main EXCEPT !.pc = "idle", !.delivered = T]
        /\ UNCHANGED <<open, threadInit, worker, ready, done>>
    BY <1>2 DEF Flush
  <2> HIDE DEF T, E
  <2>4. main' \in MainType
    <3>1. "idle" \in ServerPCs
      BY DEF ServerPCs
    <3>2. k < main.bands - 1 => k + 1 \in 1 .. NumThreads
      BY <2>2 DEF MainType
    <3> QED
      BY <2>1, <2>2, <2>3, <3>1, <3>2, MainUpdates
  <2>5. [param[k] EXCEPT !.buf = E] \in ParamType /\ param[k].buf \in Seq(Bands)
    BY <2>1, <2>2 DEF ParamType
  <2>6. param' \in [Threads -> ParamType]
    BY <2>3, <2>5, TypedUnfolded
  <2>7. sent' \in Seq(Bands)
    BY <2>3, <2>5, TypedUnfolded
  <2>8. Typed'
    BY <2>3, <2>4, <2>6, <2>7, TypedUnfolded, TypedUnfoldedNext
  <2>9. InRange'
    BY <2>2, <2>3 DEF InRange, MainType
  <2> QED
    BY <2>8, <2>9
<1> QED
  BY <1>1, <1>2

\* The end of a connection keeps them.
LEMMA DisconnectTyped ==
  ASSUME TypeInv, NEW c \in Clients, Disconnect(c) PROVE TypeInv'
<1> DEFINE F == FALSE
<1>1. "shutdown" \in ServerPCs /\ 1 \in 1 .. NumThreads /\ F \in BOOLEAN
  BY TightThreadsAssumption DEF ServerPCs
<1>2. /\ main \in MainType
      /\ main' = [main EXCEPT !.pc = "shutdown", !.client = c, !.next = 1,
                              !.delivered = F]
      /\ UNCHANGED <<open, threadInit, worker, param, ready, done, sent>>
  BY TypedUnfolded DEF TypeInv, Disconnect
<1> HIDE DEF F
<1>3. main' \in MainType
  BY <1>1, <1>2, MainUpdates
<1>4. main'.pc = "shutdown"
  BY <1>2 DEF MainType
<1>5. Typed'
  BY <1>2, <1>3, TypedUnfolded, TypedUnfoldedNext DEF TypeInv
<1> QED
  BY <1>4, <1>5 DEF TypeInv, InRange

\* Dismissing a worker keeps them.
LEMMA DismissTyped == ASSUME TypeInv, Dismiss PROVE TypeInv'
<1> USE TightThreadsAssumption DEF TypeInv, Threads, Workers
<1> DEFINE T == TRUE
           F == FALSE
           k == main.next
<1>1. "join" \in ServerPCs /\ T \in BOOLEAN /\ F \in BOOLEAN
  BY DEF ServerPCs
<1>2. /\ main \in MainType /\ k \in Workers /\ k \in Threads
      /\ param[k] \in ParamType
  BY TypedUnfolded DEF Dismiss, MainType
<1>3. /\ param' = [param EXCEPT ![k] = [param[k] EXCEPT !.deadyet = T]]
      /\ ready' = [ready EXCEPT ![k] = F]
      /\ main' = [main EXCEPT !.pc = "join"]
      /\ UNCHANGED <<open, threadInit, worker, done, sent>>
      /\ k < NumThreads /\ threadInit
  BY DEF Dismiss
<1> HIDE DEF T, F, k
<1>4. main' \in MainType
  BY <1>1, <1>2, <1>3, MainUpdates
<1>5. [param[k] EXCEPT !.deadyet = T] \in ParamType
  BY <1>1, <1>2, ParamUpdates
<1>6. param' \in [Threads -> ParamType] /\ ready' \in [Workers -> BOOLEAN]
  BY <1>1, <1>3, <1>5, TypedUnfolded
<1>7. Typed'
  BY <1>3, <1>4, <1>6, TypedUnfolded, TypedUnfoldedNext
<1>8. main'.pc = "join" /\ main'.next = k
  BY <1>2, <1>3 DEF MainType, k
<1>9. InRange'
  BY <1>3, <1>8 DEF InRange
<1> QED
  BY <1>7, <1>9

\* Joining a worker keeps them.
LEMMA JoinTyped == ASSUME TypeInv, Join PROVE TypeInv'
<1> USE TightThreadsAssumption DEF TypeInv, Threads, Workers
<1> DEFINE k == main.next
           gone == [pc |-> "none", rect |-> 0]
<1>1. /\ main \in MainType /\ k < NumThreads /\ k + 1 \in 1 .. NumThreads
      /\ "shutdown" \in ServerPCs /\ gone \in WorkerType
  BY TypedUnfolded DEF Join, InRange, MainType, ServerPCs, WorkerType, WorkerPCs
<1>2. /\ worker' = [worker EXCEPT ![k] = gone]
      /\ main' = [main EXCEPT !.pc = "shutdown", !.next = k + 1]
      /\ UNCHANGED <<open, threadInit, param, ready, done, sent>>
  BY DEF Join
<1> HIDE DEF k, gone
<1>3. main' \in MainType
  BY <1>1, <1>2, MainUpdates
<1>4. worker' \in [Workers -> WorkerType]
  BY <1>1, <1>2, TypedUnfolded
<1>5. Typed'
  BY <1>2, <1>3, <1>4, TypedUnfolded, TypedUnfoldedNext
<1>6. main'.pc = "shutdown"
  BY <1>1, <1>2 DEF MainType
<1> QED
  BY <1>5, <1>6 DEF InRange

\* Freeing a client keeps them.
LEMMA GoneTyped == ASSUME TypeInv, ClientConnectionGone PROVE TypeInv'
<1> USE TightThreadsAssumption DEF TypeInv
<1> DEFINE T == TRUE
           F == FALSE
<1>1. "idle" \in ServerPCs /\ T \in BOOLEAN /\ F \in BOOLEAN /\ main \in MainType
  BY TypedUnfolded DEF ServerPCs
<1>2. /\ main' = [main EXCEPT !.pc = "idle"]
      /\ param' = [i \in Threads |-> NoParam]
      /\ ready' = [i \in Workers |-> T] /\ done' = [i \in Workers |-> T]
      /\ open' = open \ {main.client} /\ threadInit' = F
      /\ UNCHANGED <<worker, sent>>
  BY DEF ClientConnectionGone
<1> HIDE DEF T, F
<1>3. main' \in MainType
  BY <1>1, <1>2, MainUpdates
<1>4. param' \in [Threads -> ParamType]
  BY <1>2, NoParamTyped
<1>5. ready' \in [Workers -> BOOLEAN] /\ done' \in [Workers -> BOOLEAN]
  BY <1>1, <1>2
<1>6. open' \subseteq Clients
  BY <1>2, TypedUnfolded
<1>7. Typed'
  BY <1>1, <1>2, <1>3, <1>4, <1>5, <1>6, TypedUnfolded, TypedUnfoldedNext
<1>8. main'.pc = "idle"
  BY <1>1, <1>2 DEF MainType
<1> QED
  BY <1>7, <1>8 DEF InRange

\* Each step of a worker keeps the types and ranges.
LEMMA WorkerTyped == ASSUME TypeInv, NEW i \in Workers, Worker(i) PROVE TypeInv'
<1> USE TightThreadsAssumption DEF TypeInv
<1>1. {"exited", "wait", "run", "signal", "check"} \subseteq WorkerPCs
  BY DEF WorkerPCs
<1>2. i \in Threads /\ param[i] \in ParamType /\ worker[i] \in WorkerType
  BY TypedUnfolded DEF Threads, Workers
<1>3. CASE Check(i)
  <2>1. worker' \in [Workers -> WorkerType]
    BY <1>1, <1>3, GoToTyped, TypedUnfolded DEF Check
  <2> QED
    BY <1>3, <2>1, TypedUnfolded, TypedUnfoldedNext DEF Check, InRange
<1>4. CASE Take(i)
  <2>1. param[i].rect \in Nat
    BY <1>2 DEF ParamType
  <2>2. [pc |-> "run", rect |-> param[i].rect] \in WorkerType
    BY <1>1, <2>1 DEF WorkerType
  <2>3. worker' \in [Workers -> WorkerType]
    <3>1. CASE GoTo(i, "exited")
      BY <1>1, <3>1, GoToTyped, TypedUnfolded
    <3>2. CASE worker' = [worker EXCEPT ![i] = [pc |-> "run",
                                               rect |-> param[i].rect]]
      BY <2>2, <3>2, TypedUnfolded
    <3> QED
      BY <1>4, <3>1, <3>2 DEF Take
  <2> DEFINE T == TRUE
  <2>4. ready' = [ready EXCEPT ![i] = T] /\ T \in BOOLEAN
    BY <1>4 DEF Take
  <2> HIDE DEF T
  <2>5. ready' \in [Workers -> BOOLEAN]
    BY <2>4, TypedUnfolded
  <2> QED
    BY <1>4, <2>3, <2>5, TypedUnfolded, TypedUnfoldedNext DEF Take, InRange
<1>5. CASE Encode(i)
  <2>1. worker' \in [Workers -> WorkerType]
    BY <1>1, <1>5, GoToTyped, TypedUnfolded DEF Encode
  <2>2. Band(worker[i].rect, i) \in Bands
    BY <1>2 DEF Band, Bands, WorkerType
  <2>3. Append(param[i].buf, Band(worker[i].rect, i)) \in Seq(Bands)
    BY <1>2, <2>2 DEF ParamType
  <2>4. PICK status \in BOOLEAN :
          param' = [param EXCEPT
                     ![i] = [param[i] EXCEPT
                              !.status = status,
                              !.buf = Append(@, Band(worker[i].rect, i))]]
    BY <1>5, <1>2, TypedUnfolded DEF Encode
  <2>5. [param[i] EXCEPT !.status = status,
                         !.buf = Append(@, Band(worker[i].rect, i))]
          \in ParamType
    BY <1>2, <2>3, ParamUpdates
  <2>6. param' \in [Threads -> ParamType]
    BY <2>4, <2>5, TypedUnfolded
  <2> QED
    BY <1>5, <2>1, <2>6, TypedUnfolded, TypedUnfoldedNext DEF Encode, InRange
<1>6. CASE Signal(i)
  <2>1. worker' \in [Workers -> WorkerType]
    BY <1>1, <1>6, GoToTyped, TypedUnfolded DEF Signal
  <2> DEFINE F == FALSE
  <2>2. done' = [done EXCEPT ![i] = F] /\ F \in BOOLEAN
    BY <1>6 DEF Signal
  <2> HIDE DEF F
  <2>3. done' \in [Workers -> BOOLEAN]
    BY <2>2, TypedUnfolded
  <2> QED
    BY <1>6, <2>1, <2>3, TypedUnfolded, TypedUnfoldedNext DEF Signal, InRange
<1> QED
  BY <1>3, <1>4, <1>5, <1>6 DEF Worker

\* So does every step.
LEMMA NextTyped == TypeInv /\ [Next]_vars => TypeInv'
<1> SUFFICES ASSUME TypeInv, [Next]_vars PROVE TypeInv'
  OBVIOUS
<1>1. ASSUME NEW c \in Clients, NEW bands \in 1 .. NumThreads, Begin(c, bands)
      PROVE  TypeInv'
  BY <1>1, BeginTyped
<1>2. ASSUME NEW c \in Clients, Connect(c) PROVE TypeInv'
  BY <1>2, TypedUnfolded, TypedUnfoldedNext DEF Connect, TypeInv, InRange
<1>3. ASSUME NEW c \in Clients, Disconnect(c) PROVE TypeInv'
  BY <1>3, DisconnectTyped
<1>4. CASE Server
  BY <1>4, OwnBandTyped, AwaitTyped, FlushTyped, DismissTyped, JoinTyped,
     GoneTyped DEF Server
<1>5. ASSUME NEW i \in Workers, Worker(i) PROVE TypeInv'
  BY <1>5, WorkerTyped
<1>6. CASE UNCHANGED vars
  BY <1>6 DEF vars, TypeInv, Typed, InRange
<1> QED
  BY <1>1, <1>2, <1>3, <1>4, <1>5, <1>6 DEF Next

-----------------------------------------------------------------------------
(***************************************************************************)
(* A client outlives the workers.  The invariant: without threads there is *)
(* no worker; in a shutdown the workers before main.next are gone; and a   *)
(* worker that was released but not dismissed was given a rectangle of a   *)
(* client that is connected.                                               *)
(***************************************************************************)
NoneIfOff == ~threadInit => \A i \in Workers : At(i, "none")
ServedIsOpen == main.pc # "idle" => main.client \in open
JoinedAreGone ==
  Closing => \A i \in Workers : i < main.next => At(i, "none")
GivenIsOpen ==
  \A i \in Workers :
    ~ready[i] /\ ~param[i].deadyet => param[i].client \in open

\* The part of the invariant that is not a type.
LifeRest ==
  /\ NoneIfOff /\ ServedIsOpen /\ JoinedAreGone /\ GivenIsOpen
  /\ ClientOutlivesWorkers

\* The invariant holds initially.
LEMMA LifeInit == Init => LifeRest
  BY DEF Init, LifeRest, NoneIfOff, ServedIsOpen, JoinedAreGone, GivenIsOpen,
              ClientOutlivesWorkers, At, Closing

\* What a step of a worker leaves alone.
LEMMA WorkerFrame ==
  ASSUME TypeInv, NEW i \in Workers, Worker(i)
  PROVE  /\ UNCHANGED <<open, threadInit, main, sent>>
         /\ \A j \in Workers \ {i} : UNCHANGED <<worker[j], param[j], ready[j],
                                                 done[j]>>
         /\ \A j \in Threads : UNCHANGED <<param[j].client, param[j].bands,
                                           param[j].deadyet>>
         /\ ready[i] => ready'[i]
         /\ At(i, "none")' => At(i, "none")
         /\ At(i, "run")' => At(i, "wait") /\ ~ready[i] /\ ~param[i].deadyet
<1> USE DEF TypeInv, At, GoTo
<1>1. /\ worker \in [Workers -> WorkerType] /\ param \in [Threads -> ParamType]
      /\ ready \in [Workers -> BOOLEAN] /\ done \in [Workers -> BOOLEAN]
      /\ i \in Threads /\ worker[i] \in WorkerType /\ Workers \subseteq Threads
  BY TypedUnfolded DEF Threads, Workers
<1>2. CASE Check(i)
  BY <1>1, <1>2 DEF Check, WorkerType
<1>3. CASE Take(i)
  BY <1>1, <1>3 DEF Take, WorkerType
<1>4. CASE Encode(i)
  BY <1>1, <1>4 DEF Encode, WorkerType, ParamType
<1>5. CASE Signal(i)
  BY <1>1, <1>5 DEF Signal, WorkerType
<1> QED
  BY <1>2, <1>3, <1>4, <1>5 DEF Worker

\* A step that frees no client, starts no worker and gives out no rectangle.
LEMMA LifeKept ==
  ASSUME LifeRest,
         UNCHANGED <<open, threadInit>>,
         main'.pc # "idle" => main'.client \in open,
         Closing' => \A i \in Workers : i < main'.next => At(i, "none"),
         \A i \in Workers :
           /\ At(i, "none") => At(i, "none")'
           /\ At(i, "run")' => At(i, "run")
           /\ ~ready'[i] /\ ~param'[i].deadyet => ~ready[i] /\ ~param[i].deadyet
           /\ param'[i].client = param[i].client
  PROVE  LifeRest'
<1> USE DEF LifeRest
<1>1. NoneIfOff'
  BY DEF NoneIfOff
<1>2. ServedIsOpen'
  BY DEF ServedIsOpen
<1>3. JoinedAreGone'
  BY DEF JoinedAreGone
<1>4. GivenIsOpen'
  BY DEF GivenIsOpen
<1>5. ClientOutlivesWorkers'
  BY DEF ClientOutlivesWorkers
<1> QED
  BY <1>1, <1>2, <1>3, <1>4, <1>5

\* The client is dropped after a write error.
LEMMA LifeClose ==
  ASSUME TypeInv, LifeRest, CloseClient, main.pc # "idle" PROVE LifeRest'
<1>1. main'.client = main.client /\ main'.next = 1
  BY TypedUnfolded DEF TypeInv, CloseClient, MainType
<1>2. UNCHANGED <<open, threadInit, worker, param, ready>>
  BY DEF CloseClient
<1>3. main.client \in open
  BY DEF LifeRest, ServedIsOpen
<1>4. \A i \in Workers : ~(i < 1)
  BY DEF Workers
<1> QED
  BY <1>1, <1>2, <1>3, <1>4, LifeKept DEF At

\* A rectangle is given out.
LEMMA LifeBegin ==
  ASSUME TypeInv, LifeRest, NEW c \in Clients, NEW bands \in 1 .. NumThreads,
         Begin(c, bands)
  PROVE  LifeRest'
<1>1. /\ open' = open /\ c \in open /\ threadInit'
      /\ main'.pc = "own" /\ main'.client = c
  BY DEF Begin, InitThreads
<1>2. Workers \subseteq Threads /\ param \in [Threads -> ParamType]
  BY TypedUnfolded DEF TypeInv, Threads, Workers
<1>3. ASSUME NEW i \in Workers, i < bands
      PROVE  param'[i].client = c
  <2>1. i \in Threads /\ ~(i >= bands)
    BY <1>2, <1>3, TightThreadsAssumption DEF Workers
  <2>2. param'[i] = [param[i] EXCEPT !.client = c, !.rect = main.rect + 1,
                                     !.bands = bands, !.status = TRUE]
    BY <2>1 DEF Begin
  <2> QED
    BY <1>2, <2>1, <2>2 DEF ParamType
<1>4. ASSUME NEW i \in Workers, ~(i < bands)
      PROVE  param'[i] = param[i] /\ (ready'[i] <=> ready[i])
  <2>1. i \in Threads /\ i >= bands
    BY <1>2, <1>4, TightThreadsAssumption DEF Workers
  <2>2. param'[i] = param[i]
    BY <2>1 DEF Begin
  <2>3. ready'[i] = (i >= bands /\ ready[i])
    BY DEF Begin
  <2> QED
    BY <2>1, <2>2, <2>3
<1>5. ASSUME NEW i \in Workers, At(i, "run")'
      PROVE  At(i, "run")
  BY <1>5 DEF Begin, InitThreads, At
<1>6. GivenIsOpen'
  BY <1>1, <1>3, <1>4 DEF GivenIsOpen, LifeRest
<1>7. ClientOutlivesWorkers'
  BY <1>1, <1>3, <1>4, <1>5 DEF ClientOutlivesWorkers, LifeRest
<1> QED
  BY <1>1, <1>6, <1>7 DEF LifeRest, NoneIfOff, ServedIsOpen, JoinedAreGone,
                          Closing

\* The server encodes, waits and writes.
LEMMA LifeEncode ==
  ASSUME TypeInv, LifeRest, OwnBand \/ Await \/ Flush PROVE LifeRest'
<1>1. CASE CloseClient
  BY <1>1, LifeClose DEF OwnBand, Await, Flush
<1>2. CASE ~CloseClient
  <2>1. /\ main \in MainType /\ param \in [Threads -> ParamType]
        /\ Workers \subseteq Threads
    BY TypedUnfolded DEF TypeInv, Workers, Threads
  <2>2. /\ main'.client = main.client
        /\ main'.pc \in {"idle", "await", "flush"} /\ main.pc # "idle"
    <3>1. CASE OwnBand
      BY <1>2, <2>1, <3>1 DEF OwnBand, MainType
    <3>2. CASE Await
      BY <2>1, <3>2 DEF Await, MainType
    <3>3. CASE Flush
      BY <1>2, <2>1, <3>3 DEF Flush, MainType
    <3> QED
      BY <3>1, <3>2, <3>3
  <2>3. UNCHANGED <<open, threadInit, worker, ready>>
    BY <1>2 DEF OwnBand, Await, Flush
  <2>4. ASSUME NEW i \in Workers
        PROVE  UNCHANGED <<param[i].client, param[i].deadyet>>
    <3>1. CASE OwnBand \/ Await
      BY <1>2, <3>1 DEF OwnBand, Await
    <3>2. CASE Flush
      <4>1. param' = [param EXCEPT ![main.next].buf = <<>>]
        BY <1>2, <3>2 DEF Flush
      <4> QED
        BY <2>1, <4>1 DEF ParamType
    <3> QED
      BY <3>1, <3>2
  <2>5. main.client \in open /\ ~Closing'
    BY <2>2 DEF LifeRest, ServedIsOpen, Closing
  <2> QED
    BY <2>2, <2>3, <2>4, <2>5, LifeKept DEF At
<1> QED
  BY <1>1, <1>2

\* A client goes: its workers are dismissed and joined before it is freed.
LEMMA LifeShutdown ==
  ASSUME TypeInv, LifeRest,
         \/ \E c \in Clients : Disconnect(c)
         \/ Dismiss \/ Join \/ ClientConnectionGone
  PROVE  LifeRest'
<1>1. /\ main \in MainType /\ param \in [Threads -> ParamType]
      /\ worker \in [Workers -> WorkerType] /\ ready \in [Workers -> BOOLEAN]
      /\ Workers \subseteq Threads
  BY TypedUnfolded DEF TypeInv, Workers, Threads
<1>2. ASSUME NEW c \in Clients, Disconnect(c) PROVE LifeRest'
  <2>1. main'.client = c /\ main'.next = 1
    BY <1>1, <1>2 DEF Disconnect, MainType
  <2>2. UNCHANGED <<open, threadInit, worker, param, ready>> /\ c \in open
    BY <1>2 DEF Disconnect
  <2>3. \A i \in Workers : ~(i < 1)
    BY DEF Workers
  <2> QED
    BY <2>1, <2>2, <2>3, LifeKept DEF At
<1>3. CASE Dismiss
  <2>1. /\ main'.client = main.client /\ main'.next = main.next
        /\ main.pc = "shutdown" /\ main.pc # "idle"
    BY <1>1, <1>3 DEF Dismiss, MainType
  <2>2. UNCHANGED <<open, threadInit, worker>>
    BY <1>3 DEF Dismiss
  <2>3. ASSUME NEW i \in Workers, i = main.next
        PROVE  param'[i].client = param[i].client /\ param'[i].deadyet
    BY <1>1, <1>3, <2>3 DEF Dismiss, ParamType
  <2>4. ASSUME NEW i \in Workers, i # main.next
        PROVE  param'[i] = param[i] /\ (ready'[i] <=> ready[i])
    BY <1>1, <1>3, <2>4 DEF Dismiss
  <2>5. /\ main.client \in open
        /\ \A i \in Workers : i < main.next => At(i, "none")
    BY <2>1 DEF LifeRest, ServedIsOpen, JoinedAreGone, Closing
  <2> QED
    BY <2>1, <2>2, <2>3, <2>4, <2>5, LifeKept DEF At
<1>4. CASE Join
  <2>1. /\ main'.client = main.client /\ main'.next = main.next + 1
        /\ main.pc = "join" /\ main.pc # "idle" /\ main.next \in Nat
    BY <1>1, <1>4 DEF Join, MainType
  <2>2. UNCHANGED <<open, threadInit, param, ready>>
    BY <1>4 DEF Join
  <2>3. ASSUME NEW i \in Workers
        PROVE  worker'[i].pc = IF i = main.next THEN "none" ELSE worker[i].pc
    BY <1>1, <1>4 DEF Join, WorkerType
  <2>4. /\ main.client \in open
        /\ \A i \in Workers : i < main.next => At(i, "none")
    BY <2>1 DEF LifeRest, ServedIsOpen, JoinedAreGone, Closing
  <2>5. \A i \in Workers : i < main'.next => i < main.next \/ i = main.next
    BY <2>1 DEF Workers
  <2>6. \A i \in Workers :
          /\ i < main'.next => At(i, "none")'
          /\ At(i, "none") => At(i, "none")'
          /\ At(i, "run")' => At(i, "run")
    BY <2>3, <2>4, <2>5 DEF At
  <2>7. NoneIfOff' /\ ServedIsOpen' /\ JoinedAreGone'
    BY <2>1, <2>2, <2>4, <2>6
       DEF LifeRest, NoneIfOff, ServedIsOpen, JoinedAreGone
  <2>8. GivenIsOpen' /\ ClientOutlivesWorkers'
    BY <2>2, <2>6 DEF LifeRest, GivenIsOpen, ClientOutlivesWorkers
  <2> QED
    BY <2>7, <2>8 DEF LifeRest
<1>5. CASE ClientConnectionGone
  <2>1. \A i \in Workers : At(i, "none")
    <3>1. CASE threadInit
      <4>1. \A i \in Workers : i < main.next
        BY <1>5, <3>1, TightThreadsAssumption DEF ClientConnectionGone, Workers
      <4>2. Closing
        BY <1>5 DEF ClientConnectionGone, Closing
      <4> QED
        BY <4>1, <4>2 DEF LifeRest, JoinedAreGone
    <3>2. CASE ~threadInit
      BY <3>2 DEF LifeRest, NoneIfOff
    <3> QED
      BY <3>1, <3>2
  <2>2. /\ main'.pc = "idle" /\ worker' = worker
        /\ \A i \in Workers : ready'[i]
    BY <1>1, <1>5 DEF ClientConnectionGone, MainType
  <2>3. \A i \in Workers : At(i, "none")' /\ ~At(i, "run")'
    BY <2>1, <2>2 DEF At
  <2> QED
    BY <2>2, <2>3 DEF LifeRest, NoneIfOff, ServedIsOpen, JoinedAreGone, Closing,
                      GivenIsOpen, ClientOutlivesWorkers
<1> QED
  BY <1>2, <1>3, <1>4, <1>5

\* A worker moves.
LEMMA LifeWorker ==
  ASSUME TypeInv, LifeRest, NEW i \in Workers, Worker(i) PROVE LifeRest'
<1>1. Workers \subseteq Threads
  BY DEF Workers, Threads
<1>2. UNCHANGED <<open, threadInit, main, sent>>
  BY WorkerFrame
<1>3. ASSUME NEW j \in Workers
      PROVE  /\ param'[j].client = param[j].client
             /\ param'[j].deadyet = param[j].deadyet
             /\ ready[j] => ready'[j]
             /\ At(j, "run")' =>
                  At(j, "run") \/ (~ready[j] /\ ~param[j].deadyet)
             /\ At(j, "none") => At(j, "none")'
  <2>1. CASE j = i
    <3>1. At(i, "none") => FALSE
      BY DEF Worker, Check, Take, Encode, Signal, At
    <3> QED
      BY <1>1, <2>1, <3>1, WorkerFrame
  <2>2. CASE j # i
    BY <1>1, <2>2, WorkerFrame DEF At
  <2> QED
    BY <2>1, <2>2
<1>4. NoneIfOff' /\ ServedIsOpen' /\ JoinedAreGone'
  BY <1>2, <1>3 DEF LifeRest, NoneIfOff, ServedIsOpen, JoinedAreGone, Closing
<1>5. GivenIsOpen'
  BY <1>2, <1>3 DEF LifeRest, GivenIsOpen
<1>6. ClientOutlivesWorkers'
  BY <1>2, <1>3 DEF LifeRest, GivenIsOpen, ClientOutlivesWorkers
<1> QED
  BY <1>4, <1>5, <1>6 DEF LifeRest

\* Every step keeps the invariant.
LEMMA LifeNext == TypeInv /\ LifeRest /\ [Next]_vars => LifeRest'
<1> SUFFICES ASSUME TypeInv, LifeRest, [Next]_vars PROVE LifeRest'
  OBVIOUS
<1>1. ASSUME NEW c \in Clients, Connect(c) PROVE LifeRest'
  BY <1>1 DEF Connect, LifeRest, NoneIfOff, ServedIsOpen, JoinedAreGone,
              GivenIsOpen, ClientOutlivesWorkers, Closing, At
<1>2. CASE UNCHANGED vars
  BY <1>2 DEF vars, LifeRest, NoneIfOff, ServedIsOpen, JoinedAreGone,
              GivenIsOpen, ClientOutlivesWorkers, Closing, At
<1> QED
  BY <1>1, <1>2, LifeBegin, LifeEncode, LifeShutdown, LifeWorker
     DEF Next, Server

(***************************************************************************)
(* Whatever fails, a worker never encodes for a client whose record was    *)
(* freed: rfbClientConnectionGone joins the workers first.                 *)
(***************************************************************************)
THEOREM WorkersNeverOutliveClient == Spec => []ClientOutlivesWorkers
<1>1. Init => TypeInv /\ LifeRest
  BY InitTyped, LifeInit
<1>2. TypeInv /\ LifeRest /\ [Next]_vars => (TypeInv /\ LifeRest)'
  BY NextTyped, LifeNext
<1>3. LifeRest => ClientOutlivesWorkers
  BY DEF LifeRest
<1> QED
  BY <1>1, <1>2, <1>3, PTL DEF Spec

-----------------------------------------------------------------------------
(***************************************************************************)
(* No zlib stream is shared, if the server's own encoder does not fail.    *)
(* The invariant is the state of the two mutexes in each phase: a worker   *)
(* that owes the server an answer is released, at work or done; all others *)
(* rest on locked mutexes.  So no worker is at work for an earlier         *)
(* rectangle, and all threads share the streams out in the same way.       *)
(***************************************************************************)
AtRest(i) == At(i, "check") \/ At(i, "wait")
AtWork(i) == At(i, "run") \/ At(i, "signal")

Resting(i) == AtRest(i) /\ ready[i] /\ done[i]
Released(i) == AtRest(i) /\ ~ready[i] /\ done[i]
Working(i) == AtWork(i) /\ ready[i] /\ done[i]
Answered(i) == AtRest(i) /\ ready[i] /\ ~done[i]

Owes(i) == /\ main.pc \in {"own", "await"}
           /\ main.next <= i /\ i < main.bands

Handshake(i) ==
  /\ Owes(i) => Released(i) \/ Working(i) \/ Answered(i)
  /\ ~Owes(i) => Resting(i)

Handshakes ==
  threadInit /\ ~Closing =>
    \A i \in Workers : ~param[i].deadyet /\ Handshake(i)

Unlit ==
  /\ main.pc \in {"own", "await", "flush"} => threadInit
  /\ ~threadInit =>
       \A i \in Workers : ready[i] /\ done[i] /\ ~param[i].deadyet

Given(i) ==
  At(i, "run") \/ (~ready[i] /\ ~param[i].deadyet) =>
    i < main.bands /\ param[i].bands = main.bands

AllGiven ==
  /\ \A i \in Workers : Given(i)
  /\ main.pc = "own" => param[0].bands = main.bands

StreamRest == Handshakes /\ Unlit /\ AllGiven

\* The streams of one rectangle's bands are different.
LEMMA StreamsDisjoint ==
  ASSUME NEW b \in 1 .. 8, NEW i \in 0 .. b - 1, NEW j \in 0 .. b - 1, i # j
  PROVE  ZlibStreams(i, b) \cap ZlibStreams(j, b) = {}
<1> DEFINE n == IF b < 4 THEN b ELSE 4
<1>1. n \in 1 .. 4
  OBVIOUS
<1>2. 4 \div 1 = 4 /\ 4 \div 2 = 2 /\ 4 \div 3 = 1 /\ 4 \div 4 = 1
  OBVIOUS
<1>3. CASE n = 1
  BY <1>3
<1>4. CASE n = 2
  BY <1>2, <1>4 DEF ZlibStreams
<1>5. CASE n = 3
  BY <1>2, <1>5 DEF ZlibStreams
<1>6. CASE n = 4
  BY <1>2, <1>6 DEF ZlibStreams
<1> QED
  BY <1>1, <1>3, <1>4, <1>5, <1>6

\* So the invariant implies the property.
LEMMA StreamsFromRest == TypeInv /\ AllGiven => StreamsNotShared
<1> SUFFICES ASSUME TypeInv, AllGiven, NEW i \in Threads, NEW j \in Threads,
                    i # j, Encoding(i), Encoding(j)
             PROVE  ZlibStreams(i, param[i].bands)
                      \cap ZlibStreams(j, param[j].bands) = {}
  BY DEF StreamsNotShared
<1>1. ASSUME NEW k \in Threads, Encoding(k)
      PROVE  param[k].bands = main.bands /\ k \in 0 .. main.bands - 1
  <2>1. main.bands \in 0 .. NumThreads
    BY TypedUnfolded DEF TypeInv, MainType
  <2>2. CASE k = 0
    BY <1>1, <2>1, <2>2, TightThreadsAssumption
       DEF Encoding, AllGiven, TypeInv, InRange
  <2>3. CASE k # 0
    <3>1. k \in Workers /\ k \in Nat
      BY <2>3, TightThreadsAssumption DEF Threads, Workers
    <3>2. At(k, "run")
      BY <1>1, <2>3 DEF Encoding
    <3> QED
      BY <2>1, <3>1, <3>2, TightThreadsAssumption DEF AllGiven, Given
  <2> QED
    BY <2>2, <2>3
<1>2. main.bands \in 1 .. 8
  <2>1. main.bands \in 0 .. NumThreads
    BY TypedUnfolded DEF TypeInv, MainType
  <2> QED
    BY <1>1, <2>1, TightThreadsAssumption DEF Threads
<1>3. ZlibStreams(i, main.bands) \cap ZlibStreams(j, main.bands) = {}
  BY <1>1, <1>2, StreamsDisjoint
<1> QED
  BY <1>1, <1>3

\* The invariant holds initially.
LEMMA StreamInit == Init => StreamRest
  BY DEF Init, NoParam, StreamRest, Handshakes, Unlit, AllGiven, Given, At,
         Workers, Threads

\* The state of a worker that a step does not touch.
LEMMA HandshakeKept ==
  ASSUME NEW i \in Workers, Handshake(i), Owes(i)' <=> Owes(i),
         worker'[i] = worker[i],
         ready'[i] <=> ready[i], done'[i] <=> done[i]
  PROVE  Handshake(i)'
  BY DEF Handshake, Resting, Released, Working, Answered, AtRest, AtWork, At

\* A shutdown begins.
LEMMA StreamClose ==
  ASSUME TypeInv, StreamRest, CloseClient \/ \E c \in Clients : Disconnect(c)
  PROVE  StreamRest'
<1>1. Closing' /\ main'.bands = main.bands /\ main'.pc = "shutdown"
  BY TypedUnfolded DEF TypeInv, CloseClient, Disconnect, MainType, Closing
<1>2. UNCHANGED <<threadInit, worker, param, ready, done>>
  BY DEF CloseClient, Disconnect
<1>3. Handshakes' /\ Unlit'
  BY <1>1, <1>2 DEF StreamRest, Handshakes, Unlit
<1>4. AllGiven'
  BY <1>1, <1>2 DEF StreamRest, AllGiven, Given, At
<1> QED
  BY <1>3, <1>4 DEF StreamRest

\* A rectangle is given out: everybody rests, so nobody has an old one.
LEMMA StreamBegin ==
  ASSUME TypeInv, LifeRest, StreamRest, NEW c \in Clients,
         NEW bands \in 1 .. NumThreads, Begin(c, bands)
  PROVE  StreamRest'
<1>1. /\ main'.pc = "own" /\ main'.bands = bands /\ main'.next = 1
      /\ threadInit' /\ done' = done /\ main.pc = "idle"
  BY DEF Begin, InitThreads
<1>2. /\ param \in [Threads -> ParamType] /\ Workers \subseteq Threads
      /\ 0 \in Threads
  BY TypedUnfolded, TightThreadsAssumption DEF TypeInv, Workers, Threads
<1>3. ASSUME NEW i \in Threads
      PROVE  /\ i < bands => param'[i].bands = bands
             /\ param'[i].deadyet = param[i].deadyet
  <2>1. param'[i] = IF i >= bands THEN param[i]
                    ELSE [param[i] EXCEPT !.client = c, !.rect = main.rect + 1,
                                          !.bands = bands, !.status = TRUE]
    BY DEF Begin
  <2>2. i < bands => ~(i >= bands)
    BY TightThreadsAssumption DEF Threads
  <2> QED
    BY <1>2, <2>1, <2>2 DEF ParamType
<1>4. ASSUME NEW i \in Workers
      PROVE  /\ AtRest(i)' /\ ready[i] /\ done[i] /\ ~param[i].deadyet
  <2>1. CASE threadInit
    <3>1. ~Closing /\ ~Owes(i) /\ worker' = worker
      BY <1>1, <2>1 DEF Begin, InitThreads, Closing, Owes
    <3> QED
      BY <2>1, <3>1 DEF StreamRest, Handshakes, Handshake, Resting, AtRest, At
  <2>2. CASE ~threadInit
    <3>1. worker'[i].pc = "check"
      BY <2>2 DEF Begin, InitThreads
    <3> QED
      BY <2>2, <3>1 DEF StreamRest, Unlit, AtRest, At
  <2> QED
    BY <2>1, <2>2
<1>5. ASSUME NEW i \in Workers
      PROVE  /\ i < bands \/ i >= bands
             /\ i < bands => ~ready'[i] /\ Owes(i)'
             /\ ~(i < bands) => ready'[i] /\ ~Owes(i)'
  <2>1. ready'[i] = (i >= bands /\ ready[i])
    BY DEF Begin
  <2>2. /\ i < bands => ~(i >= bands)
        /\ ~(i < bands) => i >= bands
        /\ 1 <= i
    BY TightThreadsAssumption DEF Workers
  <2> QED
    BY <1>1, <1>4, <2>1, <2>2 DEF Owes
<1>6. Handshakes'
  BY <1>1, <1>2, <1>3, <1>4, <1>5
     DEF Handshakes, Handshake, Resting, Released
<1>7. Unlit'
  BY <1>1 DEF Unlit
<1>8. AllGiven'
  <2>1. ASSUME NEW i \in Workers PROVE Given(i)'
    <3>1. ~At(i, "run")'
      BY <1>4 DEF AtRest, At
    <3> QED
      BY <1>1, <1>2, <1>3, <1>5, <3>1 DEF Given
  <2>2. 0 < bands
    OBVIOUS
  <2> QED
    BY <1>1, <1>2, <1>3, <2>1, <2>2 DEF AllGiven
<1> QED
  BY <1>6, <1>7, <1>8 DEF StreamRest

\* The server encodes its own band; its encoder does not fail.
LEMMA StreamOwnBand ==
  ASSUME TypeInv, StreamRest, OwnBand, 0 \notin failed'
  PROVE  StreamRest'
<1>1. CASE CloseClient
  BY <1>1, StreamClose
<1>2. CASE ~CloseClient
  <2>1. main \in MainType /\ main.bands \in 1 .. NumThreads /\ main.next = 1
    BY TypedUnfolded DEF TypeInv, InRange, OwnBand, MainType
  <2>2. /\ main.pc = "own"
        /\ main' = IF main.bands = 1
                   THEN [main EXCEPT !.pc = "idle", !.delivered = TRUE]
                   ELSE [main EXCEPT !.pc = "await"]
        /\ UNCHANGED <<open, threadInit, worker, param, ready, done>>
    BY <1>2 DEF OwnBand
  <2>3. /\ main'.bands = main.bands /\ main'.next = main.next
        /\ main'.pc = IF main.bands = 1 THEN "idle" ELSE "await"
    BY <2>1, <2>2 DEF MainType
  <2>4. ASSUME NEW i \in Workers PROVE Owes(i)' <=> Owes(i)
    <3>1. CASE main.bands = 1
      <4>1. ~(1 <= i /\ i < 1)
        BY DEF Workers
      <4> QED
        BY <2>1, <2>3, <3>1, <4>1 DEF Owes
    <3>2. CASE main.bands # 1
      BY <2>2, <2>3, <3>2 DEF Owes
    <3> QED
      BY <3>1, <3>2
  <2>5. threadInit /\ ~Closing
    BY <2>2 DEF StreamRest, Unlit, Closing
  <2>6. Handshakes'
    BY <2>2, <2>4, <2>5, HandshakeKept DEF StreamRest, Handshakes
  <2>7. Unlit' /\ AllGiven'
    BY <2>2, <2>3, <2>5 DEF StreamRest, Unlit, AllGiven, Given, At
  <2> QED
    BY <2>6, <2>7 DEF StreamRest
<1> QED
  BY <1>1, <1>2

\* The server waits for the next worker that owes it an answer.
LEMMA StreamAwait ==
  ASSUME TypeInv, StreamRest, Await PROVE StreamRest'
<1>0. PICK k : k = main.next
  OBVIOUS
<1>1. /\ main \in MainType /\ k < main.bands /\ main.pc = "await"
      /\ k \in Workers /\ k \in Nat /\ main.bands \in Nat
      /\ done \in [Workers -> BOOLEAN]
  BY <1>0, TypedUnfolded, TightThreadsAssumption
     DEF TypeInv, InRange, Await, MainType, Workers
<1>2. threadInit /\ ~Closing
  BY <1>1 DEF StreamRest, Unlit, Closing
<1>3. /\ UNCHANGED <<open, threadInit, worker, param, ready>>
      /\ done'[k] /\ \A i \in Workers \ {k} : done'[i] = done[i]
      /\ ~done[k]
  BY <1>0, <1>1 DEF Await
<1>4. /\ main'.bands = main.bands
      /\ k < main.bands - 1 => main'.pc = "await" /\ main'.next = k + 1
      /\ ~(k < main.bands - 1) => main'.pc \in {"flush", "idle"}
  BY <1>0, <1>1 DEF Await, MainType
<1>5. Owes(k) /\ Answered(k)
  BY <1>0, <1>1, <1>2, <1>3
     DEF Owes, StreamRest, Handshakes, Handshake, Released, Working, Answered
<1>6. ~Owes(k)' /\ Resting(k)'
  <2>1. CASE k < main.bands - 1
    <3>1. main'.next = k + 1 /\ ~(k + 1 <= k)
      BY <1>1, <1>4, <2>1
    <3> QED
      BY <3>1, <1>3, <1>5 DEF Owes, Answered, Resting, AtRest, At
  <2>2. CASE ~(k < main.bands - 1)
    BY <1>3, <1>4, <1>5, <2>2 DEF Owes, Answered, Resting, AtRest, At
  <2> QED
    BY <2>1, <2>2
<1>7. ASSUME NEW i \in Workers \ {k} PROVE Owes(i)' <=> Owes(i)
  <2>1. i \in Nat
    BY TightThreadsAssumption DEF Workers
  <2>2. CASE k < main.bands - 1
    BY <1>0, <1>1, <1>4, <2>1, <2>2 DEF Owes
  <2>3. CASE ~(k < main.bands - 1)
    BY <1>0, <1>1, <1>4, <2>1, <2>3 DEF Owes
  <2> QED
    BY <2>2, <2>3
<1>8. ASSUME NEW i \in Workers PROVE Handshake(i)'
  <2>1. CASE i = k
    BY <1>6, <2>1 DEF Handshake
  <2>2. CASE i # k
    <3>1. Handshake(i) /\ (Owes(i)' <=> Owes(i))
      BY <1>2, <1>7, <2>2 DEF StreamRest, Handshakes
    <3>2. worker'[i] = worker[i] /\ ready'[i] = ready[i] /\ done'[i] = done[i]
      BY <1>3, <2>2
    <3> QED
      BY <3>1, <3>2, HandshakeKept
  <2> QED
    BY <2>1, <2>2
<1>9. Handshakes' /\ Unlit'
  BY <1>2, <1>3, <1>8 DEF StreamRest, Handshakes, Unlit
<1>10. AllGiven'
  BY <1>1, <1>3, <1>4 DEF StreamRest, AllGiven, Given, At
<1> QED
  BY <1>9, <1>10 DEF StreamRest

\* The server writes the buffers out.
LEMMA StreamFlush ==
  ASSUME TypeInv, StreamRest, Flush PROVE StreamRest'
<1>1. CASE CloseClient
  BY <1>1, StreamClose
<1>2. CASE ~CloseClient
  <2>1. /\ main \in MainType /\ param \in [Threads -> ParamType]
        /\ Workers \subseteq Threads
    BY TypedUnfolded DEF TypeInv, Workers, Threads
  <2>2. /\ main.pc = "flush" /\ main'.pc \in {"flush", "idle"}
        /\ main'.bands = main.bands
    BY <1>2, <2>1 DEF Flush, MainType
  <2>3. UNCHANGED <<open, threadInit, worker, ready, done>>
    BY <1>2 DEF Flush
  <2>4. ASSUME NEW i \in Workers
        PROVE  UNCHANGED <<param[i].bands, param[i].deadyet>>
    <3>1. param' = [param EXCEPT ![main.next].buf = <<>>]
      BY <1>2 DEF Flush
    <3> QED
      BY <2>1, <3>1 DEF ParamType
  <2>5. threadInit /\ ~Closing /\ ~Closing'
    BY <2>2 DEF StreamRest, Unlit, Closing
  <2>6. ASSUME NEW i \in Workers PROVE Handshake(i)'
    BY <2>2, <2>3, <2>5, HandshakeKept DEF StreamRest, Handshakes, Owes
  <2>7. Handshakes' /\ Unlit'
    BY <2>2, <2>3, <2>4, <2>5, <2>6 DEF StreamRest, Handshakes, Unlit
  <2>8. AllGiven'
    BY <2>2, <2>3, <2>4 DEF StreamRest, AllGiven, Given, At
  <2> QED
    BY <2>7, <2>8 DEF StreamRest
<1> QED
  BY <1>1, <1>2

\* The threads are shut down.
LEMMA StreamShutdown ==
  ASSUME TypeInv, LifeRest, StreamRest, Dismiss \/ Join \/ ClientConnectionGone
  PROVE  StreamRest'
<1>1. /\ main \in MainType /\ param \in [Threads -> ParamType]
      /\ worker \in [Workers -> WorkerType] /\ ready \in [Workers -> BOOLEAN]
      /\ Workers \subseteq Threads
  BY TypedUnfolded DEF TypeInv, Workers, Threads
<1>2. CASE Dismiss
  <2>1. main'.pc = "join" /\ main'.bands = main.bands
    BY <1>1, <1>2 DEF Dismiss, MainType
  <2>2. UNCHANGED <<threadInit, worker, done>> /\ threadInit
    BY <1>2 DEF Dismiss
  <2>3. ASSUME NEW i \in Workers, i = main.next
        PROVE  param'[i].bands = param[i].bands /\ param'[i].deadyet
    BY <1>1, <1>2, <2>3 DEF Dismiss, ParamType
  <2>4. ASSUME NEW i \in Workers, i # main.next
        PROVE  param'[i] = param[i] /\ (ready'[i] <=> ready[i])
    BY <1>1, <1>2, <2>4 DEF Dismiss
  <2>5. Handshakes' /\ Unlit'
    BY <2>1, <2>2 DEF Handshakes, Unlit, Closing
  <2>6. AllGiven'
    BY <2>1, <2>2, <2>3, <2>4 DEF StreamRest, AllGiven, Given, At
  <2> QED
    BY <2>5, <2>6 DEF StreamRest
<1>3. CASE Join
  <2>1. main'.pc = "shutdown" /\ main'.bands = main.bands
    BY <1>1, <1>3 DEF Join, MainType
  <2>2. UNCHANGED <<threadInit, param, ready, done>>
    BY <1>3 DEF Join
  <2>3. ASSUME NEW i \in Workers PROVE At(i, "run")' => At(i, "run")
    BY <1>1, <1>3 DEF Join, WorkerType, At
  <2>4. Handshakes' /\ Unlit'
    BY <2>1, <2>2 DEF StreamRest, Handshakes, Unlit, Closing
  <2>5. AllGiven'
    BY <2>1, <2>2, <2>3 DEF StreamRest, AllGiven, Given
  <2> QED
    BY <2>4, <2>5 DEF StreamRest
<1>4. CASE ClientConnectionGone
  <2>1. main'.pc = "idle" /\ ~threadInit'
    BY <1>1, <1>4 DEF ClientConnectionGone, MainType
  <2>2. ASSUME NEW i \in Workers
        PROVE  /\ ready'[i] /\ done'[i] /\ ~param'[i].deadyet
               /\ ~At(i, "run")'
    <3>1. ready'[i] /\ done'[i] /\ ~param'[i].deadyet
      BY <1>1, <1>4 DEF ClientConnectionGone, NoParam
    <3>2. At(i, "none")'
      BY <1>4, <2>1, LifeShutdown DEF LifeRest, NoneIfOff
    <3> QED
      BY <3>1, <3>2 DEF At
  <2> QED
    BY <2>1, <2>2 DEF StreamRest, Handshakes, Unlit, AllGiven, Given
<1> QED
  BY <1>2, <1>3, <1>4

\* A worker moves.
LEMMA StreamWorker ==
  ASSUME TypeInv, LifeRest, StreamRest, NEW i \in Workers, Worker(i)
  PROVE  StreamRest'
<1>1. /\ worker \in [Workers -> WorkerType] /\ ready \in [Workers -> BOOLEAN]
      /\ done \in [Workers -> BOOLEAN] /\ Workers \subseteq Threads
  BY TypedUnfolded DEF TypeInv, Workers, Threads
<1>2. UNCHANGED <<open, threadInit, main, sent>>
  BY WorkerFrame
<1>3. threadInit
  <2>1. ~At(i, "none")
    BY DEF Worker, Check, Take, Encode, Signal, At
  <2> QED
    BY <2>1 DEF LifeRest, NoneIfOff
<1>4. ASSUME NEW j \in Workers
      PROVE  UNCHANGED <<param[j].bands, param[j].deadyet>>
  BY <1>1, WorkerFrame
<1>5. ASSUME NEW j \in Workers, j # i
      PROVE  UNCHANGED <<worker[j], ready[j], done[j]>>
  BY <1>5, WorkerFrame
<1>6. ASSUME ~Closing PROVE Handshake(i)'
  <2>1. Handshake(i) /\ ~param[i].deadyet /\ (Owes(i)' <=> Owes(i))
    BY <1>2, <1>3, <1>6 DEF StreamRest, Handshakes, Owes
  <2>2. CASE Check(i)
    <3>1. /\ worker'[i].pc = "wait" /\ worker[i].pc = "check"
          /\ UNCHANGED <<ready, done>>
      BY <1>1, <2>1, <2>2 DEF Check, GoTo, At, WorkerType
    <3> QED
      BY <2>1, <3>1 DEF Handshake, Resting, Released, Working, Answered, AtRest,
                        AtWork, At
  <2>3. CASE Take(i)
    <3>1. /\ worker'[i].pc = "run" /\ worker[i].pc = "wait" /\ ~ready[i]
          /\ ready'[i] /\ done' = done
      BY <1>1, <2>1, <2>3 DEF Take, GoTo, At, WorkerType
    <3> QED
      BY <2>1, <3>1 DEF Handshake, Resting, Released, Working, Answered, AtRest,
                        AtWork, At
  <2>4. CASE Encode(i)
    <3>1. /\ worker'[i].pc = "signal" /\ worker[i].pc = "run"
          /\ UNCHANGED <<ready, done>>
      BY <1>1, <2>4 DEF Encode, GoTo, At, WorkerType
    <3> QED
      BY <2>1, <3>1 DEF Handshake, Resting, Released, Working, Answered, AtRest,
                        AtWork, At
  <2>5. CASE Signal(i)
    <3>1. /\ worker'[i].pc = "check" /\ worker[i].pc = "signal"
          /\ ready' = ready /\ ~done'[i]
      BY <1>1, <2>5 DEF Signal, GoTo, At, WorkerType
    <3> QED
      BY <2>1, <3>1 DEF Handshake, Resting, Released, Working, Answered, AtRest,
                        AtWork, At
  <2> QED
    BY <2>2, <2>3, <2>4, <2>5 DEF Worker
<1>7. ASSUME ~Closing, NEW j \in Workers, j # i PROVE Handshake(j)'
  <2>1. Handshake(j) /\ (Owes(j)' <=> Owes(j))
    BY <1>2, <1>3, <1>7 DEF StreamRest, Handshakes, Owes
  <2> QED
    BY <1>5, <1>7, <2>1, HandshakeKept
<1>8. Handshakes' /\ Unlit'
  BY <1>2, <1>3, <1>4, <1>6, <1>7
     DEF StreamRest, Handshakes, Unlit, Closing
<1>9. ASSUME NEW j \in Workers PROVE Given(j)'
  <2>1. Given(j)
    BY DEF StreamRest, AllGiven
  <2>2. CASE j = i
    BY <1>2, <1>4, <2>1, <2>2, WorkerFrame DEF Given
  <2>3. CASE j # i
    BY <1>2, <1>4, <1>5, <2>1, <2>3 DEF Given, At
  <2> QED
    BY <2>2, <2>3
<1>10. 0 \in Threads => param'[0].bands = param[0].bands
  BY WorkerFrame
<1>11. 0 \in Threads
  BY TightThreadsAssumption DEF Threads
<1>12. AllGiven'
  BY <1>2, <1>9, <1>10, <1>11, SMTT(40) DEF StreamRest, AllGiven
<1> QED
  BY <1>8, <1>12 DEF StreamRest

\* The invariant is kept until the server's own encoder fails, which is for good.
UntilFailed == 0 \notin failed => StreamRest

LEMMA FailedGrows == [Next]_vars => failed \subseteq failed'
  BY DEF Next, vars, Begin, Connect, Disconnect, Server, OwnBand, CloseClient,
         Await, Flush, Dismiss, Join, ClientConnectionGone, Worker, Check, Take,
         Encode, Signal

\* Every step keeps the invariant.
LEMMA StreamNext ==
  TypeInv /\ LifeRest /\ UntilFailed /\ [Next]_vars => UntilFailed'
<1> SUFFICES ASSUME TypeInv, LifeRest, UntilFailed, [Next]_vars,
                    0 \notin failed'
             PROVE  StreamRest'
  BY DEF UntilFailed
<1>0. StreamRest
  BY FailedGrows DEF UntilFailed
<1>1. ASSUME NEW c \in Clients, Connect(c) PROVE StreamRest'
  BY <1>0, <1>1 DEF Connect, StreamRest, Handshakes, Handshake, Owes, Resting,
              Released, Working, Answered, AtRest, AtWork, At, Unlit, AllGiven,
              Given, Closing
<1>2. CASE UNCHANGED vars
  BY <1>0, <1>2 DEF vars, StreamRest, Handshakes, Handshake, Owes, Resting,
              Released, Working, Answered, AtRest, AtWork, At, Unlit, AllGiven,
              Given, Closing
<1>3. CASE Server
  BY <1>0, <1>3, StreamOwnBand, StreamAwait, StreamFlush, StreamShutdown DEF Server
<1> QED
  BY <1>0, <1>1, <1>2, <1>3, StreamBegin, StreamClose, StreamWorker DEF Next

(***************************************************************************)
(* Until zlib or libjpeg-turbo fails in the server's own thread, no zlib   *)
(* stream is used by two threads at a time (tight.c 1132-1139), for        *)
(* any number of threads, however each rectangle is cut and whatever the   *)
(* workers and the network do.                                             *)
(***************************************************************************)
THEOREM NoStreamIsShared == Spec => []StreamsNotShared
<1>1. Init => TypeInv /\ LifeRest /\ UntilFailed
  BY InitTyped, LifeInit, StreamInit DEF UntilFailed
<1>2. TypeInv /\ LifeRest /\ UntilFailed /\ [Next]_vars
        => (TypeInv /\ LifeRest /\ UntilFailed)'
  BY NextTyped, LifeNext, StreamNext
<1>3. TypeInv /\ LifeRest /\ UntilFailed => StreamsNotShared
  <2>1. 0 \notin failed \/ StreamsNotShared
    BY DEF StreamsNotShared
  <2> QED
    BY <2>1, StreamsFromRest DEF StreamRest, UntilFailed
<1> QED
  BY <1>1, <1>2, <1>3, PTL DEF Spec

-----------------------------------------------------------------------------
(***************************************************************************)
(* The threads implement the sequential encoder, as long as no encoder     *)
(* fails.  The invariant says what is in each worker's buffer: its band of *)
(* the present rectangle from the moment the worker is done with it until  *)
(* it is written, and nothing at any other time.  So what is written next  *)
(* is always the next band.                                                *)
(***************************************************************************)
Filled(i) ==
  /\ i < main.bands
  /\ \/ /\ main.pc \in {"own", "await"}
        /\ i < main.next \/ At(i, "signal") \/ ~done[i]
     \/ main.pc = "flush" /\ main.next <= i

OfThisRect(i) ==
  /\ At(i, "run") => worker[i].rect = main.rect
  /\ ~ready[i] => param[i].rect = main.rect
  /\ param[i].buf = IF Filled(i) THEN <<Band(main.rect, i)>> ELSE <<>>

Buffers ==
  /\ threadInit /\ ~Closing => \A i \in Workers : OfThisRect(i)
  /\ ~threadInit => \A i \in Workers : param[i].buf = <<>>

\* Every answer so far was a success, and the rectangle is not complete.
AllWell ==
  main.pc \in {"own", "await", "flush"} =>
    /\ main.status /\ ~main.delivered
    /\ \A i \in Workers : i < main.bands => param[i].status

Written ==
  /\ main.pc = "own" => sent = <<>>
  /\ main.pc = "await" => Len(sent) = 1
  /\ main.pc = "flush" => Len(sent) = main.next

SeqRest == Buffers /\ AllWell /\ Written

\* The invariant holds initially.
LEMMA SeqInit == Init => SeqRest
<1> SUFFICES ASSUME Init PROVE SeqRest
  OBVIOUS
<1>1. Buffers
  <2>1. ASSUME NEW i \in Workers PROVE param[i].buf = <<>>
    <3>1. i \in Threads
      BY DEF Workers, Threads
    <3> QED
      BY <3>1 DEF Init, NoParam
  <2> QED
    BY <2>1 DEF Init, Buffers
<1> QED
  BY <1>1 DEF Init, SeqRest, AllWell, Written

\* What the types say of the variables.
LEMMA TypeFacts ==
  ASSUME TypeInv
  PROVE  /\ main \in MainType /\ param \in [Threads -> ParamType]
         /\ worker \in [Workers -> WorkerType]
         /\ ready \in [Workers -> BOOLEAN] /\ done \in [Workers -> BOOLEAN]
         /\ sent \in Seq(Bands) /\ Workers \subseteq Threads /\ Workers \subseteq Nat
         /\ main.bands \in 0 .. NumThreads /\ main.next \in 1 .. NumThreads
         /\ main.rect \in Nat /\ NumThreads \in 1 .. 8
         /\ \A i \in Workers : 1 <= i /\ i < NumThreads
<1>1. main \in MainType /\ param \in [Threads -> ParamType]
      /\ worker \in [Workers -> WorkerType]
      /\ ready \in [Workers -> BOOLEAN] /\ done \in [Workers -> BOOLEAN]
      /\ sent \in Seq(Bands)
  BY TypedUnfolded DEF TypeInv
<1>2. NumThreads \in 1 .. 8
  BY TightThreadsAssumption
<1>3. Workers \subseteq Threads /\ Workers \subseteq Nat
      /\ \A i \in Workers : 1 <= i /\ i < NumThreads
  BY <1>2 DEF Workers, Threads
<1> QED
  BY <1>1, <1>2, <1>3 DEF MainType

\* While a rectangle is in hand there are threads, each as its phase demands.
LEMMA InHand ==
  ASSUME StreamRest, main.pc \in {"own", "await", "flush"}
  PROVE  threadInit /\ ~Closing
         /\ \A i \in Workers : ~param[i].deadyet /\ Handshake(i)
<1>1. threadInit /\ ~Closing
  BY DEF StreamRest, Unlit, Closing
<1> QED
  BY <1>1 DEF StreamRest, Handshakes

\* The step to a shutdown.
LEMMA SeqClose ==
  ASSUME TypeInv, SeqRest, CloseClient \/ \E c \in Clients : Disconnect(c)
  PROVE  SeqRest'
<1>1. main'.pc = "shutdown"
  BY TypeFacts DEF CloseClient, Disconnect, MainType
<1>2. UNCHANGED <<threadInit, param>>
  BY DEF CloseClient, Disconnect
<1>3. Buffers'
  BY <1>1, <1>2 DEF Buffers, Closing, SeqRest
<1>4. AllWell' /\ Written'
  BY <1>1 DEF AllWell, Written
<1> QED
  BY <1>3, <1>4 DEF SeqRest

\* A rectangle is given out.  Everybody rests and all buffers are empty.
LEMMA SeqBegin ==
  ASSUME TypeInv, LifeRest, StreamRest, SeqRest, NEW c \in Clients,
         NEW bands \in 1 .. NumThreads, Begin(c, bands)
  PROVE  SeqRest'
<1>1. /\ main' = [pc |-> "own", client |-> c, rect |-> main.rect + 1,
                  bands |-> bands, next |-> 1, status |-> TRUE,
                  delivered |-> FALSE]
      /\ threadInit' /\ done' = done /\ main.pc = "idle" /\ sent' = <<>>
  BY DEF Begin, InitThreads
<1>2. /\ param \in [Threads -> ParamType] /\ Workers \subseteq Threads
      /\ Workers \subseteq Nat /\ main.rect \in Nat
  BY TypeFacts
<1>3. ASSUME NEW i \in Workers
      PROVE  /\ param'[i].buf = param[i].buf
             /\ i < bands => param'[i].rect = main.rect + 1 /\ param'[i].status
  <2>1. param'[i] = IF i >= bands THEN param[i]
                    ELSE [param[i] EXCEPT !.client = c, !.rect = main.rect + 1,
                                          !.bands = bands, !.status = TRUE]
    BY <1>2 DEF Begin
  <2>2. i < bands => ~(i >= bands)
    BY <1>2
  <2>3. param[i] \in ParamType
    BY <1>2
  <2> QED
    BY <2>1, <2>2, <2>3 DEF ParamType
<1>4. ASSUME NEW i \in Workers
      PROVE  AtRest(i)' /\ ready[i] /\ done[i] /\ param[i].buf = <<>>
  <2>1. CASE threadInit
    <3>1. ~Closing /\ ~Owes(i) /\ worker' = worker /\ ~Filled(i)
      BY <1>1, <2>1 DEF Begin, InitThreads, Closing, Owes, Filled
    <3>2. Resting(i) /\ OfThisRect(i)
      BY <2>1, <3>1 DEF StreamRest, Handshakes, Handshake, SeqRest, Buffers
    <3> QED
      BY <3>1, <3>2 DEF Resting, AtRest, At, OfThisRect
  <2>2. CASE ~threadInit
    <3>1. worker'[i].pc = "check"
      BY <2>2 DEF Begin, InitThreads
    <3> QED
      BY <2>2, <3>1 DEF StreamRest, Unlit, AtRest, At, SeqRest, Buffers
  <2> QED
    BY <2>1, <2>2
<1>5. ASSUME NEW i \in Workers PROVE OfThisRect(i)'
  <2>1. main'.pc = "own" /\ main'.next = 1 /\ main'.rect = main.rect + 1
    BY <1>1
  <2>2. ~(i < 1)
    BY DEF Workers
  <2>3. ~At(i, "run")' /\ ~At(i, "signal")'
    BY <1>4 DEF AtRest, At
  <2>4. ~Filled(i)'
    BY <1>1, <1>4, <2>1, <2>2, <2>3 DEF Filled
  <2>5. ~ready'[i] => i < bands
    <3>1. ready'[i] = (i >= bands /\ ready[i])
      BY DEF Begin
    <3>2. i < bands \/ i >= bands
      BY <1>2
    <3> QED
      BY <1>4, <3>1, <3>2
  <2> QED
    BY <1>3, <1>4, <2>1, <2>3, <2>4, <2>5 DEF OfThisRect
<1>6. Buffers'
  BY <1>1, <1>5 DEF Buffers
<1>7. AllWell'
  <2>1. main'.status /\ ~main'.delivered /\ main'.bands = bands
    BY <1>1
  <2> QED
    BY <1>3, <2>1 DEF AllWell
<1>8. Written'
  <2>1. main'.pc = "own" /\ sent' = <<>>
    BY <1>1
  <2> QED
    BY <2>1 DEF Written
<1> QED
  BY <1>6, <1>7, <1>8 DEF SeqRest

\* The server's own band is written.
LEMMA SeqOwnBand ==
  ASSUME TypeInv, StreamRest, SeqRest, OwnBand, 0 \notin failed'
  PROVE  SeqRest'
<1>1. CASE CloseClient
  BY <1>1, SeqClose
<1>2. CASE ~CloseClient
  <2>1. main \in MainType /\ main.bands \in 1 .. NumThreads /\ main.next = 1
        /\ main.rect \in Nat
    BY TypeFacts DEF TypeInv, InRange, OwnBand, MainType
  <2>2. /\ main.pc = "own" /\ sent' = Append(sent, Band(main.rect, 0))
        /\ main' = IF main.bands = 1
                   THEN [main EXCEPT !.pc = "idle", !.delivered = TRUE]
                   ELSE [main EXCEPT !.pc = "await"]
        /\ UNCHANGED <<open, threadInit, worker, param, ready, done>>
    BY <1>2 DEF OwnBand
  <2>3. /\ main'.bands = main.bands /\ main'.next = main.next
        /\ main'.rect = main.rect /\ main'.status = main.status
        /\ main'.pc = IF main.bands = 1 THEN "idle" ELSE "await"
        /\ main.bands # 1 => main'.delivered = main.delivered
    BY <2>1, <2>2 DEF MainType
  <2>4. ASSUME NEW i \in Workers PROVE Filled(i)' <=> Filled(i)
    <3>1. CASE main.bands = 1
      <4>1. ~(i < 1)
        BY DEF Workers
      <4> QED
        BY <2>3, <3>1, <4>1 DEF Filled
    <3>2. CASE main.bands # 1
      BY <2>2, <2>3, <3>2 DEF Filled, At
    <3> QED
      BY <3>1, <3>2
  <2>5. threadInit /\ ~Closing
    BY <2>2, InHand
  <2>6. \A i \in Workers : OfThisRect(i)
    BY <2>5 DEF SeqRest, Buffers
  <2>7. \A i \in Workers : OfThisRect(i)'
    BY <2>2, <2>3, <2>4, <2>6 DEF OfThisRect, At
  <2>8. Buffers'
    BY <2>2, <2>5, <2>7 DEF Buffers
  <2>9. AllWell'
    BY <2>2, <2>3 DEF SeqRest, AllWell
  <2>10. Written'
    <3>1. sent = <<>> /\ Len(Append(<<>>, Band(main.rect, 0))) = 1
      BY <2>2 DEF SeqRest, Written
    <3> QED
      BY <2>2, <2>3, <3>1 DEF Written
  <2> QED
    BY <2>8, <2>9, <2>10 DEF SeqRest
<1> QED
  BY <1>1, <1>2

\* The server waits for a worker: its band is in its buffer, and it succeeded.
LEMMA SeqAwait ==
  ASSUME TypeInv, StreamRest, SeqRest, Await PROVE SeqRest'
<1>0. PICK k : k = main.next
  OBVIOUS
<1>1. /\ main \in MainType /\ k < main.bands /\ main.pc = "await"
      /\ k \in Workers /\ k \in Nat /\ main.bands \in Nat
      /\ done \in [Workers -> BOOLEAN]
  BY <1>0, TypedUnfolded, TightThreadsAssumption
     DEF TypeInv, InRange, Await, MainType, Workers
<1>2. threadInit /\ ~Closing
  BY <1>1, InHand
<1>3. /\ UNCHANGED <<open, threadInit, worker, param, ready, sent>>
      /\ done'[k] /\ \A i \in Workers \ {k} : done'[i] = done[i]
      /\ ~done[k]
  BY <1>0, <1>1 DEF Await
<1>4. main.status /\ param[k].status /\ ~main.delivered
  BY <1>1 DEF SeqRest, AllWell
<1>5. main' = IF k < main.bands - 1
              THEN [main EXCEPT !.next = k + 1,
                                !.status = main.status /\ param[k].status]
              ELSE [main EXCEPT !.next = 1,
                                !.status = main.status /\ param[k].status,
                                !.pc = "flush"]
  BY <1>0, <1>4 DEF Await
<1>6. /\ main'.bands = main.bands /\ main'.rect = main.rect
      /\ main'.status /\ ~main'.delivered
      /\ k < main.bands - 1 => main'.pc = "await" /\ main'.next = k + 1
      /\ ~(k < main.bands - 1) => main'.pc = "flush" /\ main'.next = 1
  BY <1>1, <1>4, <1>5 DEF MainType
<1>7. ASSUME NEW i \in Workers PROVE Filled(i)' <=> Filled(i)
  <2>1. i \in Nat /\ 1 <= i
    BY TightThreadsAssumption DEF Workers
  <2>2. CASE k < main.bands - 1
    BY <1>0, <1>1, <1>3, <1>6, <2>1, <2>2 DEF Filled, At
  <2>3. CASE ~(k < main.bands - 1)
    BY <1>0, <1>1, <1>3, <1>6, <2>1, <2>3 DEF Filled
  <2> QED
    BY <2>2, <2>3
<1>8. \A i \in Workers : OfThisRect(i)
  BY <1>2 DEF SeqRest, Buffers
<1>9. \A i \in Workers : OfThisRect(i)'
  BY <1>3, <1>6, <1>7, <1>8 DEF OfThisRect, At
<1>10. Buffers'
  BY <1>2, <1>3, <1>9 DEF Buffers
<1>11. AllWell'
  BY <1>1, <1>3, <1>6 DEF SeqRest, AllWell
<1>12. Written'
  BY <1>1, <1>3, <1>6 DEF SeqRest, Written
<1> QED
  BY <1>10, <1>11, <1>12 DEF SeqRest

\* The buffer that is written next holds the band it is for.
LEMMA NextIsFilled ==
  ASSUME TypeInv, StreamRest, SeqRest, main.pc = "flush"
  PROVE  /\ main.next \in Workers /\ main.next < main.bands
         /\ param[main.next].buf = <<Band(main.rect, main.next)>>
         /\ threadInit /\ ~Closing
<1>1. main.next \in Workers /\ main.next < main.bands /\ main.next \in Nat
  BY TypeFacts, TightThreadsAssumption DEF TypeInv, InRange, Workers
<1>2. threadInit /\ ~Closing
  BY InHand
<1>3. OfThisRect(main.next) /\ Filled(main.next)
  BY <1>1, <1>2 DEF SeqRest, Buffers, Filled
<1> QED
  BY <1>1, <1>2, <1>3 DEF OfThisRect

\* A buffer is written.
LEMMA SeqFlush ==
  ASSUME TypeInv, StreamRest, SeqRest, Flush PROVE SeqRest'
<1>1. CASE CloseClient
  BY <1>1, SeqClose
<1>2. CASE ~CloseClient
  <2>0. PICK k : k = main.next
    OBVIOUS
  <2>1. /\ main \in MainType /\ param \in [Threads -> ParamType]
        /\ Workers \subseteq Threads /\ k \in Nat /\ main.bands \in Nat
        /\ Workers \subseteq Nat /\ sent \in Seq(Bands)
    BY <2>0, TypeFacts
  <2>2. /\ main.pc = "flush" /\ k \in Workers /\ k < main.bands
        /\ param[k].buf = <<Band(main.rect, k)>> /\ threadInit /\ ~Closing
    BY <2>0, NextIsFilled DEF Flush
  <2>3. /\ UNCHANGED <<open, threadInit, worker, ready, done>>
        /\ sent' = sent \o param[k].buf
        /\ param' = [param EXCEPT ![k].buf = <<>>]
        /\ main' = IF k < main.bands - 1
                   THEN [main EXCEPT !.next = k + 1]
                   ELSE [main EXCEPT !.pc = "idle", !.delivered = TRUE]
    BY <1>2, <2>0 DEF Flush
  <2>4. /\ main'.bands = main.bands /\ main'.rect = main.rect
        /\ main'.status = main.status
        /\ k < main.bands - 1 =>
             main'.pc = "flush" /\ main'.next = k + 1
             /\ main'.delivered = main.delivered
        /\ ~(k < main.bands - 1) => main'.pc = "idle"
    BY <2>1, <2>2, <2>3 DEF MainType
  <2>5. ASSUME NEW i \in Workers
        PROVE  /\ param'[i].buf = IF i = k THEN <<>> ELSE param[i].buf
               /\ UNCHANGED <<param[i].rect, param[i].status>>
    BY <2>1, <2>2, <2>3 DEF ParamType
  <2>6. ASSUME NEW i \in Workers PROVE Filled(i)' <=> Filled(i) /\ i # k
    <3>1. i \in Nat
      BY <2>1
    <3>2. CASE k < main.bands - 1
      BY <2>0, <2>1, <2>2, <2>4, <3>1, <3>2 DEF Filled
    <3>3. CASE ~(k < main.bands - 1)
      BY <2>0, <2>1, <2>2, <2>4, <3>1, <3>3 DEF Filled
    <3> QED
      BY <3>2, <3>3
  <2>7. \A i \in Workers : OfThisRect(i)
    BY <2>2 DEF SeqRest, Buffers
  <2>8. ASSUME NEW i \in Workers PROVE OfThisRect(i)'
    <3>1. OfThisRect(i)
      BY <2>7
    <3>2. param'[i].buf = IF Filled(i)' THEN <<Band(main.rect, i)>> ELSE <<>>
      BY <2>5, <2>6, <3>1 DEF OfThisRect
    <3> QED
      BY <2>3, <2>4, <2>5, <3>1, <3>2 DEF OfThisRect, At
  <2>9. Buffers'
    BY <2>2, <2>3, <2>8 DEF Buffers
  <2>10. AllWell'
    BY <2>2, <2>4, <2>5 DEF SeqRest, AllWell
  <2>11. Written'
    <3>1. Len(sent') = k + 1
      <4>1. Len(sent) = k /\ Band(main.rect, k) \in Bands
        BY <2>0, <2>1, <2>2 DEF SeqRest, Written, Band, Bands, MainType
      <4> QED
        BY <2>1, <2>2, <2>3, <4>1
    <3> QED
      BY <2>1, <2>2, <2>4, <3>1 DEF Written
  <2> QED
    BY <2>9, <2>10, <2>11 DEF SeqRest
<1> QED
  BY <1>1, <1>2

\* The threads are shut down: their parameters, with the buffers, are cleared.
LEMMA SeqShutdown ==
  ASSUME TypeInv, SeqRest, Dismiss \/ Join \/ ClientConnectionGone
  PROVE  SeqRest'
<1>1. main \in MainType /\ param \in [Threads -> ParamType] /\ Workers \subseteq Threads
  BY TypeFacts
<1>2. CASE Dismiss \/ Join
  <2>1. main'.pc \in {"shutdown", "join"} /\ threadInit' = threadInit
    BY <1>1, <1>2 DEF Dismiss, Join, MainType
  <2>2. ASSUME NEW i \in Workers PROVE param'[i].buf = param[i].buf
    <3>1. CASE Dismiss
      <4>1. /\ param' = [param EXCEPT ![main.next].deadyet = TRUE]
            /\ param[i] \in ParamType /\ i \in Threads
        BY <1>1, <3>1 DEF Dismiss
      <4> QED
        BY <1>1, <4>1 DEF ParamType
    <3>2. CASE Join
      BY <3>2 DEF Join
    <3> QED
      BY <1>2, <3>1, <3>2
  <2>3. Buffers'
    BY <2>1, <2>2 DEF SeqRest, Buffers, Closing
  <2> QED
    BY <2>1, <2>3 DEF SeqRest, AllWell, Written
<1>3. CASE ClientConnectionGone
  <2>1. main'.pc = "idle" /\ ~threadInit'
    BY <1>1, <1>3 DEF ClientConnectionGone, MainType
  <2>2. ASSUME NEW i \in Workers PROVE param'[i].buf = <<>>
    BY <1>1, <1>3 DEF ClientConnectionGone, NoParam
  <2> QED
    BY <2>1, <2>2 DEF SeqRest, Buffers, AllWell, Written
<1> QED
  BY <1>2, <1>3

\* A worker moves: while a rectangle is in hand, its own state and buffer agree.
LEMMA SeqWorker ==
  ASSUME TypeInv, LifeRest, StreamRest, SeqRest, NEW i \in Workers, Worker(i),
         failed' = {}
  PROVE  SeqRest'
<1>1. /\ worker \in [Workers -> WorkerType] /\ ready \in [Workers -> BOOLEAN]
      /\ done \in [Workers -> BOOLEAN] /\ param \in [Threads -> ParamType]
      /\ Workers \subseteq Threads /\ Workers \subseteq Nat
      /\ main.bands \in Nat /\ main.next \in Nat
  BY TypeFacts
<1>2. UNCHANGED <<open, threadInit, main, sent>>
  BY WorkerFrame
<1>3. threadInit
  <2>1. ~At(i, "none")
    BY DEF Worker, Check, Take, Encode, Signal, At
  <2> QED
    BY <2>1 DEF LifeRest, NoneIfOff
<1>4. ASSUME NEW j \in Workers, j # i
      PROVE  UNCHANGED <<worker[j], param[j], ready[j], done[j]>>
  BY <1>4, WorkerFrame
<1>5. param[i].status => param'[i].status
  <2>1. CASE Encode(i)
    <3>1. PICK status \in {TRUE} \cup {i \notin FailingThreads} :
            /\ param' = [param EXCEPT
                           ![i].status = status,
                           ![i].buf = Append(@, Band(worker[i].rect, i))]
            /\ failed' = IF status THEN failed ELSE failed \cup {i}
      BY <2>1 DEF Encode
    <3>2. status
      <4>1. failed \cup {i} # {}
        OBVIOUS
      <4> QED
        BY <3>1, <4>1
    <3> QED
      BY <1>1, <3>1, <3>2 DEF ParamType
  <2>2. CASE Check(i) \/ Take(i) \/ Signal(i)
    BY <2>2 DEF Check, Take, Signal
  <2> QED
    BY <2>1, <2>2 DEF Worker
<1>6. AllWell'
  BY <1>2, <1>4, <1>5 DEF SeqRest, AllWell
<1>7. Written'
  BY <1>2 DEF SeqRest, Written
<1>8. ASSUME ~Closing PROVE OfThisRect(i)'
  <2>1. OfThisRect(i) /\ Handshake(i) /\ ~param[i].deadyet
    BY <1>3, <1>8 DEF SeqRest, Buffers, StreamRest, Handshakes
  <2>2. CASE Check(i)
    <3>1. /\ worker'[i].pc = "wait" /\ worker[i].pc = "check"
          /\ UNCHANGED <<ready, done, param>>
      BY <1>1, <2>1, <2>2 DEF Check, GoTo, At, WorkerType
    <3>2. Filled(i)' <=> Filled(i)
      BY <1>2, <3>1 DEF Filled, At
    <3> QED
      BY <1>2, <2>1, <3>1, <3>2 DEF OfThisRect, At
  <2>3. CASE Take(i)
    <3>1. /\ worker'[i] = [pc |-> "run", rect |-> param[i].rect]
          /\ worker[i].pc = "wait" /\ ~ready[i]
          /\ ready'[i] /\ UNCHANGED <<done, param>>
      BY <1>1, <2>1, <2>3 DEF Take, At
    <3>2. Filled(i)' <=> Filled(i)
      BY <1>2, <3>1 DEF Filled, At
    <3> QED
      BY <1>2, <2>1, <3>1, <3>2 DEF OfThisRect, At
  <2>4. CASE Encode(i)
    <3>1. /\ worker'[i].pc = "signal" /\ worker[i].pc = "run"
          /\ UNCHANGED <<ready, done>>
      BY <1>1, <2>4 DEF Encode, GoTo, At, WorkerType
    <3>2. Owes(i) /\ done[i] /\ ready[i] /\ worker[i].rect = main.rect
      BY <2>1, <3>1 DEF Handshake, Resting, Released, Working, Answered, AtRest,
                        AtWork, At, OfThisRect
    <3>3. ~Filled(i) /\ Filled(i)'
      <4>1. ~(i < main.next)
        BY <1>1, <3>2 DEF Owes
      <4> QED
        BY <1>2, <3>1, <3>2, <4>1 DEF Filled, Owes, At
    <3>4. param'[i].buf = <<Band(main.rect, i)>>
      <4>1. param'[i].buf = Append(param[i].buf, Band(worker[i].rect, i))
        BY <1>1, <2>4 DEF Encode, ParamType
      <4>2. param[i].buf = <<>>
        BY <2>1, <3>3 DEF OfThisRect
      <4>3. \A b : Append(<<>>, b) = <<b>>
        OBVIOUS
      <4> QED
        BY <3>2, <4>1, <4>2, <4>3
    <3> QED
      BY <1>2, <3>1, <3>2, <3>3, <3>4 DEF OfThisRect, At, Band
  <2>5. CASE Signal(i)
    <3>1. /\ worker'[i].pc = "check" /\ worker[i].pc = "signal"
          /\ UNCHANGED <<ready, param>> /\ ~done'[i]
      BY <1>1, <2>5 DEF Signal, GoTo, At, WorkerType
    <3>2. Owes(i)
      BY <2>1, <3>1 DEF Handshake, Resting, AtRest, At
    <3>3. Filled(i) /\ Filled(i)'
      BY <1>2, <3>1, <3>2 DEF Filled, Owes, At
    <3> QED
      BY <1>2, <2>1, <3>1, <3>3 DEF OfThisRect, At, Band
  <2> QED
    BY <2>2, <2>3, <2>4, <2>5 DEF Worker
<1>9. ASSUME ~Closing, NEW j \in Workers, j # i PROVE OfThisRect(j)'
  <2>1. OfThisRect(j)
    BY <1>3, <1>9 DEF SeqRest, Buffers
  <2>2. Filled(j)' <=> Filled(j)
    BY <1>2, <1>4, <1>9 DEF Filled, At
  <2> QED
    BY <1>2, <1>4, <1>9, <2>1, <2>2 DEF OfThisRect, At, Band
<1>10. Buffers'
  BY <1>2, <1>3, <1>8, <1>9 DEF Buffers, Closing
<1> QED
  BY <1>6, <1>7, <1>10 DEF SeqRest

\* The invariant is kept until an encoder fails, which is for good.
UntilAnyFailed == failed = {} => SeqRest

\* Every step keeps the invariant.
LEMMA SeqNext ==
  ASSUME TypeInv, LifeRest, UntilFailed, UntilAnyFailed, [Next]_vars
  PROVE  UntilAnyFailed'
<1> SUFFICES ASSUME failed' = {} PROVE SeqRest'
  BY DEF UntilAnyFailed
<1>1. StreamRest /\ SeqRest /\ 0 \notin failed'
  BY FailedGrows DEF UntilFailed, UntilAnyFailed
<1>2. ASSUME NEW c \in Clients, Connect(c) PROVE SeqRest'
  BY <1>1, <1>2 DEF Connect, SeqRest, Buffers, OfThisRect, Filled, AllWell,
                    Written, Closing, At, Band
<1>3. CASE UNCHANGED vars
  BY <1>1, <1>3 DEF vars, SeqRest, Buffers, OfThisRect, Filled, AllWell,
                    Written, Closing, At, Band
<1>4. CASE Server
  BY <1>1, <1>4, SeqOwnBand, SeqAwait, SeqFlush, SeqShutdown DEF Server
<1>5. ASSUME NEW i \in Workers, Worker(i) PROVE SeqRest'
  BY <1>1, <1>5, SeqWorker
<1> QED
  BY <1>1, <1>2, <1>3, <1>4, <1>5, SeqBegin, SeqClose DEF Next

\* The rectangle in hand, as the abstract specification sees it.
JobRecord(r, b, c, x, d) ==
  [rect |-> r, bands |-> b, client |-> c, busy |-> x, delivered |-> d]

InHandNow == main.pc \in {"own", "await", "flush"}
Job == JobRecord(main.rect, main.bands, main.client, InHandNow, main.delivered)

\* The clients that are connected, and have not been given up.
Kept == IF Closing THEN open \ {main.client} ELSE open

\* A band is written: the next one, and it may be the last.
LEMMA StepSendBand ==
  ASSUME TypeInv, Len(sent) < main.bands, InHandNow,
         sent' = Append(sent, Band(main.rect, Len(sent))),
         UNCHANGED <<open, main.rect, main.bands, main.client>>,
         ~Closing, ~Closing', main'.delivered \in BOOLEAN,
         InHandNow' <=> Len(sent) + 1 < main.bands,
         main'.delivered <=> Len(sent) + 1 = main.bands
  PROVE  Sequential!SendBand
<1>1. sent \in Seq(Bands) /\ main.bands \in Nat /\ main.rect \in Nat
  BY TypeFacts
<1>2. Len(sent') = Len(sent) + 1
  BY <1>1
<1>3. Kept' = Kept
  BY DEF Kept
<1>4. Job' = [Job EXCEPT !.busy = Len(sent') < main.bands,
                         !.delivered = Len(sent') = main.bands]
  <2> DEFINE more  == Len(sent') < main.bands
             whole == Len(sent') = main.bands
  <2>1. InHandNow' = more /\ main'.delivered = whole
    BY <1>1, <1>2 DEF InHandNow
  <2>2. Job' = JobRecord(main.rect, main.bands, main.client, InHandNow',
                         main'.delivered)
    BY DEF Job, JobRecord
  <2> HIDE DEF more, whole
  <2>3. [Job EXCEPT !.busy = more, !.delivered = whole]
          = JobRecord(main.rect, main.bands, main.client, more, whole)
    <3>1. PICK now : now = Job
      OBVIOUS
    <3>2. PICK next :
            next = [now EXCEPT !.busy = more, !.delivered = whole]
      OBVIOUS
    <3>3. next = JobRecord(main.rect, main.bands, main.client, more, whole)
      BY <3>1, <3>2 DEF Job, JobRecord
    <3> QED
      BY <3>1, <3>2, <3>3
  <2> QED
    BY <2>1, <2>2, <2>3 DEF more, whole
<1>5. Job.busy /\ Job.bands = main.bands /\ Job.rect = main.rect
  BY DEF Job, JobRecord
<1> QED
  BY <1>3, <1>4, <1>5
     DEF Sequential!SendBand, Sequential!Band, Band, Job, JobRecord, Kept,
         InHandNow

\* A client is dropped because a write failed.
LEMMA StepFail ==
  ASSUME TypeInv, InHandNow, CloseClient, ~Closing
  PROVE  Sequential!Fail
<1>1. main \in MainType
  BY TypeFacts
<1>2. /\ main'.pc = "shutdown" /\ main'.rect = main.rect
      /\ main'.bands = main.bands /\ main'.client = main.client
      /\ main'.delivered = main.delivered
  BY <1>1 DEF CloseClient, MainType
<1>3. Kept' = Kept \ {main.client} /\ sent' = sent
  BY <1>2 DEF CloseClient, Kept, Closing
<1>4. Job' = [Job EXCEPT !.busy = FALSE]
  <2>1. InHandNow' = FALSE
    BY <1>2 DEF InHandNow
  <2>2. Job' = JobRecord(main.rect, main.bands, main.client, FALSE,
                         main.delivered)
    BY <1>2, <2>1 DEF Job, JobRecord
  <2>3. PICK now : now = Job
    OBVIOUS
  <2>4. PICK next : next = [now EXCEPT !.busy = FALSE]
    OBVIOUS
  <2>5. next = JobRecord(main.rect, main.bands, main.client, FALSE,
                         main.delivered)
    BY <2>3, <2>4 DEF Job, JobRecord
  <2> QED
    BY <2>2, <2>3, <2>4, <2>5
<1>5. Job.busy /\ Job.client = main.client
  BY DEF Job, JobRecord
<1> QED
  BY <1>3, <1>4, <1>5 DEF Sequential!Fail, Job, JobRecord, Kept, InHandNow

\* A client leaves.
LEMMA StepDisconnect ==
  ASSUME TypeInv, NEW c \in Clients, Disconnect(c)
  PROVE  Sequential!Disconnect(c)
<1>1. main \in MainType /\ main.pc = "idle" /\ c \in open
  BY TypeFacts DEF Disconnect
<1>2. /\ main'.pc = "shutdown" /\ main'.rect = main.rect
      /\ main'.bands = main.bands /\ main'.client = c
      /\ main'.delivered = FALSE
  BY <1>1 DEF Disconnect, MainType
<1>3. Kept = open /\ Kept' = open \ {c} /\ sent' = sent
  BY <1>1, <1>2 DEF Disconnect, Kept, Closing
<1>4. Job' = [Job EXCEPT !.client = c, !.delivered = FALSE]
  <2>1. InHandNow' = FALSE /\ InHandNow = FALSE
    BY <1>1, <1>2 DEF InHandNow
  <2>2. Job' = JobRecord(main.rect, main.bands, c, FALSE, FALSE)
    BY <1>2, <2>1 DEF Job, JobRecord
  <2>3. PICK now : now = JobRecord(main.rect, main.bands, main.client, FALSE,
                                   main.delivered)
    OBVIOUS
  <2>4. PICK next : next = [now EXCEPT !.client = c, !.delivered = FALSE]
    OBVIOUS
  <2>5. next = JobRecord(main.rect, main.bands, c, FALSE, FALSE)
    BY <2>3, <2>4 DEF JobRecord
  <2>6. now = Job
    BY <2>1, <2>3 DEF Job
  <2> QED
    BY <2>2, <2>4, <2>5, <2>6
<1>5. ~Job.busy
  BY <1>1 DEF Job, JobRecord, InHandNow
<1> QED
  BY <1>1, <1>3, <1>4, <1>5
     DEF Sequential!Disconnect, Job, JobRecord, Kept, InHandNow

\* A rectangle is begun.
LEMMA StepBegin ==
  ASSUME TypeInv, NEW c \in Clients, NEW bands \in 1 .. NumThreads,
         Begin(c, bands)
  PROVE  Sequential!Begin(c, bands)
<1>1. /\ main.pc = "idle" /\ c \in open /\ main.rect < MaxRects
      /\ main' = [pc |-> "own", client |-> c, rect |-> main.rect + 1,
                  bands |-> bands, next |-> 1, status |-> TRUE,
                  delivered |-> FALSE]
      /\ sent' = <<>> /\ open' = open
  BY DEF Begin
<1>2. Kept = open /\ Kept' = open
  BY <1>1 DEF Kept, Closing
<1>3. Job' = JobRecord(main.rect + 1, bands, c, TRUE, FALSE)
  <2>1. InHandNow' = TRUE
    BY <1>1 DEF InHandNow
  <2>2. main'.rect = main.rect + 1 /\ main'.bands = bands /\ main'.client = c
        /\ main'.delivered = FALSE
    BY <1>1
  <2> QED
    BY <2>1, <2>2 DEF Job, JobRecord
<1>4. ~Job.busy /\ Job.rect = main.rect
  BY <1>1 DEF Job, JobRecord, InHandNow
<1> QED
  BY <1>1, <1>2, <1>3, <1>4
     DEF Sequential!Begin, Job, JobRecord, Kept, InHandNow

\* A client connects.
LEMMA StepConnect ==
  ASSUME TypeInv, NEW c \in Clients, Connect(c)
  PROVE  Sequential!Connect(c)
<1>1. main.pc = "idle" /\ UNCHANGED <<main, sent>> /\ c \notin open
      /\ open' = open \cup {c}
  BY DEF Connect
<1>2. Kept = open /\ Kept' = open \cup {c}
  BY <1>1 DEF Kept, Closing
<1>3. ~Job.busy /\ Job' = Job
  BY <1>1 DEF Job, JobRecord, InHandNow
<1> QED
  BY <1>1, <1>2, <1>3
     DEF Sequential!Connect, Job, JobRecord, Kept, InHandNow

\* A step that the abstract specification does not see.
LEMMA StepHidden ==
  ASSUME UNCHANGED <<sent, main.rect, main.bands, main.client, main.delivered>>,
         InHandNow' <=> InHandNow, Kept' = Kept, failed = {}, failed' = {}
  PROVE  UNCHANGED Sequential!vars
<1>1. Job' = Job
  <2>1. InHandNow' = InHandNow
    BY DEF InHandNow
  <2> QED
    BY <2>1 DEF Job, JobRecord
<1>2. (failed # {})' = (failed # {})
  OBVIOUS
<1> QED
  BY <1>1, <1>2 DEF Sequential!vars, Job, JobRecord, Kept, InHandNow

\* One step of the abstract specification while no encoder fails.
SequentialStep ==
  \/ \E c \in Clients, bands \in 1 .. NumThreads : Sequential!Begin(c, bands)
  \/ Sequential!SendBand \/ Sequential!Fail
  \/ \E c \in Clients : Sequential!Disconnect(c) \/ Sequential!Connect(c)
  \/ UNCHANGED Sequential!vars

\* The server's own band is the first to be sent.
LEMMA OwnBandStep ==
  ASSUME TypeInv, SeqRest, OwnBand, failed = {}, failed' = {}
  PROVE  SequentialStep
<1>1. /\ main \in MainType /\ main.pc = "own" /\ InHandNow /\ ~Closing
      /\ main.bands \in Nat /\ main.bands >= 1 /\ sent = <<>>
  BY TypeFacts DEF TypeInv, InRange, OwnBand, InHandNow, Closing, SeqRest, Written
<1>2. CASE CloseClient
  BY <1>1, <1>2, StepFail DEF SequentialStep
<1>3. CASE ~CloseClient
  <2>1. /\ sent' = Append(sent, Band(main.rect, 0)) /\ open' = open
        /\ main' = IF main.bands = 1
                   THEN [main EXCEPT !.pc = "idle", !.delivered = TRUE]
                   ELSE [main EXCEPT !.pc = "await"]
    BY <1>3 DEF OwnBand
  <2>2. Len(sent) = 0
    BY <1>1
  <2>3. UNCHANGED <<main.rect, main.bands, main.client>>
    BY <1>1, <2>1 DEF MainType
  <2>4. ~main.delivered
    BY <1>1 DEF SeqRest, AllWell
  <2>5. CASE main.bands = 1
    <3>1. main'.pc = "idle" /\ main'.delivered = TRUE
      BY <1>1, <2>1, <2>5 DEF MainType
    <3>2. ~InHandNow' /\ ~Closing'
      BY <3>1 DEF InHandNow, Closing
    <3>3. Sequential!SendBand
      BY <1>1, <2>1, <2>2, <2>3, <2>5, <3>1, <3>2, StepSendBand
    <3> QED
      BY <3>3 DEF SequentialStep
  <2>6. CASE main.bands # 1
    <3>1. main'.pc = "await" /\ main'.delivered = FALSE
      BY <1>1, <2>1, <2>4, <2>6 DEF MainType
    <3>2. InHandNow' /\ ~Closing'
      BY <3>1 DEF InHandNow, Closing
    <3>3. Len(sent) + 1 < main.bands /\ Len(sent) + 1 # main.bands
          /\ Len(sent) < main.bands
      BY <1>1, <2>2, <2>6
    <3>4. sent' = Append(sent, Band(main.rect, Len(sent)))
      BY <2>1, <2>2
    <3>5. main'.delivered \in BOOLEAN /\ ~main'.delivered
      BY <3>1
    <3>6. Sequential!SendBand
      BY <1>1, <2>1, <2>3, <3>2, <3>3, <3>4, <3>5, StepSendBand
    <3> QED
      BY <3>6 DEF SequentialStep
  <2> QED
    BY <2>5, <2>6
<1> QED
  BY <1>2, <1>3

\* Waiting for a worker is not seen: what it answers is a success.
LEMMA AwaitStep ==
  ASSUME TypeInv, SeqRest, Await, failed = {}, failed' = {}
  PROVE  SequentialStep
<1>1. main \in MainType /\ main.pc = "await" /\ main.next < main.bands
      /\ main.next \in Workers
  BY TypeFacts, TightThreadsAssumption DEF TypeInv, InRange, Await, Workers
<1>2. main.status /\ param[main.next].status
  BY <1>1 DEF SeqRest, AllWell
<1>3. /\ UNCHANGED <<main.rect, main.bands, main.client, main.delivered>>
      /\ main'.pc \in {"await", "flush"} /\ UNCHANGED <<open, sent>>
  BY <1>1, <1>2 DEF Await, MainType
<1>4. Kept' = Kept /\ (InHandNow' <=> InHandNow)
  BY <1>1, <1>3 DEF Kept, Closing, InHandNow
<1> QED
  BY <1>3, <1>4, StepHidden DEF SequentialStep

\* The next buffer holds the next band.
LEMMA FlushStep ==
  ASSUME TypeInv, StreamRest, SeqRest, Flush, failed = {}, failed' = {}
  PROVE  SequentialStep
<1>0. PICK k : k = main.next
  OBVIOUS
<1>1. /\ main \in MainType /\ main.pc = "flush" /\ InHandNow /\ ~Closing
      /\ main.bands \in Nat /\ k \in Nat /\ k < main.bands /\ Len(sent) = k
      /\ param[k].buf = <<Band(main.rect, k)>> /\ sent \in Seq(Bands)
      /\ main.rect \in Nat /\ k \in Threads
  BY <1>0, TypeFacts, NextIsFilled
     DEF Flush, InHandNow, Closing, SeqRest, Written
<1>2. CASE CloseClient
  BY <1>1, <1>2, StepFail DEF SequentialStep
<1>3. CASE ~CloseClient
  <2>1. /\ sent' = sent \o param[k].buf /\ open' = open
        /\ main' = IF k < main.bands - 1
                   THEN [main EXCEPT !.next = k + 1]
                   ELSE [main EXCEPT !.pc = "idle", !.delivered = TRUE]
    BY <1>0, <1>3 DEF Flush
  <2>2. sent' = Append(sent, Band(main.rect, Len(sent)))
    <3>1. Band(main.rect, k) \in Bands
      BY <1>1 DEF Band, Bands
    <3>2. \A b \in Bands : sent \o <<b>> = Append(sent, b)
      BY <1>1
    <3> QED
      BY <1>1, <2>1, <3>1, <3>2
  <2>3. UNCHANGED <<main.rect, main.bands, main.client>>
    BY <1>1, <2>1 DEF MainType
  <2>4. ~main.delivered
    BY <1>1 DEF SeqRest, AllWell
  <2>5. CASE k < main.bands - 1
    <3>1. main'.pc = "flush" /\ main'.delivered = main.delivered
      BY <1>1, <2>1, <2>5 DEF MainType
    <3>2. InHandNow' /\ ~Closing' /\ k + 1 < main.bands /\ k + 1 # main.bands
          /\ main.delivered \in BOOLEAN
      BY <1>1, <2>5, <3>1 DEF InHandNow, Closing, MainType
    <3>3. Sequential!SendBand
      BY <1>1, <2>1, <2>2, <2>3, <2>4, <3>1, <3>2, StepSendBand
    <3> QED
      BY <3>3 DEF SequentialStep
  <2>6. CASE ~(k < main.bands - 1)
    <3>1. main'.pc = "idle" /\ main'.delivered = TRUE
      BY <1>1, <2>1, <2>6 DEF MainType
    <3>2. ~InHandNow' /\ ~Closing' /\ ~(k + 1 < main.bands)
          /\ k + 1 = main.bands
      BY <1>1, <2>6, <3>1 DEF InHandNow, Closing
    <3>3. Sequential!SendBand
      BY <1>1, <2>1, <2>2, <2>3, <3>1, <3>2, StepSendBand
    <3> QED
      BY <3>3 DEF SequentialStep
  <2> QED
    BY <2>5, <2>6
<1> QED
  BY <1>2, <1>3

\* Nor is the shutdown seen, after a client was given up.
LEMMA ShutdownStep ==
  ASSUME TypeInv, Dismiss \/ Join \/ ClientConnectionGone,
         failed = {}, failed' = {}
  PROVE  SequentialStep
<1>1. main \in MainType
  BY TypeFacts
<1>2. /\ UNCHANGED <<sent, main.rect, main.bands, main.client, main.delivered>>
      /\ main.pc \in {"shutdown", "join"}
      /\ main'.pc \in {"shutdown", "join", "idle"}
  BY <1>1 DEF Dismiss, Join, ClientConnectionGone, MainType
<1>3. InHandNow' <=> InHandNow
  BY <1>2 DEF InHandNow
<1>4. Kept' = Kept
  <2>1. CASE Dismiss \/ Join
    <3>1. open' = open /\ main'.pc # "idle"
      BY <1>1, <2>1 DEF Dismiss, Join, MainType
    <3> QED
      BY <1>2, <3>1 DEF Kept, Closing
  <2>2. CASE ClientConnectionGone
    <3>1. open' = open \ {main.client} /\ main'.pc = "idle"
      BY <1>1, <2>2 DEF ClientConnectionGone, MainType
    <3> QED
      BY <1>2, <3>1 DEF Kept, Closing
  <2> QED
    BY <2>1, <2>2
<1> QED
  BY <1>2, <1>3, <1>4, StepHidden DEF SequentialStep

\* A worker writes to nobody.
LEMMA WorkerStep ==
  ASSUME TypeInv, NEW i \in Workers, Worker(i), failed = {}, failed' = {}
  PROVE  SequentialStep
<1>1. UNCHANGED <<open, main, sent>>
  BY WorkerFrame
<1>2. Kept' = Kept /\ (InHandNow' <=> InHandNow)
  BY <1>1 DEF Kept, Closing, InHandNow
<1> QED
  BY <1>1, <1>2, StepHidden DEF SequentialStep

\* So every step is one of the abstract specification, or not seen.
LEMMA EveryStep ==
  ASSUME TypeInv, UntilFailed, UntilAnyFailed, [Next]_vars
  PROVE  [Sequential!Next]_Sequential!vars
<1>1. CASE failed' # {}
  BY <1>1 DEF Sequential!Next
<1>2. CASE failed' = {}
  <2>1. failed = {} /\ StreamRest /\ SeqRest
    BY <1>2, FailedGrows DEF UntilFailed, UntilAnyFailed
  <2>2. SequentialStep
    <3>1. CASE UNCHANGED vars
      <4>1. UNCHANGED <<open, main, sent>>
        BY <3>1 DEF vars
      <4>2. Kept' = Kept /\ (InHandNow' <=> InHandNow)
        BY <4>1 DEF Kept, Closing, InHandNow
      <4> QED
        BY <1>2, <2>1, <4>1, <4>2, StepHidden DEF SequentialStep
    <3>2. ASSUME NEW c \in Clients, NEW bands \in 1 .. NumThreads,
                 Begin(c, bands)
          PROVE  SequentialStep
      BY <3>2, StepBegin DEF SequentialStep
    <3>3. ASSUME NEW c \in Clients, Connect(c) \/ Disconnect(c)
          PROVE  SequentialStep
      BY <3>3, StepConnect, StepDisconnect DEF SequentialStep
    <3>4. CASE Server
      BY <1>2, <2>1, <3>4, OwnBandStep, AwaitStep, FlushStep, ShutdownStep
         DEF Server
    <3>5. ASSUME NEW i \in Workers, Worker(i) PROVE SequentialStep
      BY <1>2, <2>1, <3>5, WorkerStep
    <3> QED
      BY <3>1, <3>2, <3>3, <3>4, <3>5 DEF Next
  <2>3. UNCHANGED (failed # {})
    BY <1>2, <2>1
  <2> QED
    BY <2>2, <2>3 DEF SequentialStep, Sequential!Next
<1> QED
  BY <1>1, <1>2

(***************************************************************************)
(* However many threads encode a rectangle and in whatever order they      *)
(* finish, its bands reach its client once each and from top to bottom, or *)
(* the client is dropped (rfbSendRectEncodingTight, tight.c 383-473), as   *)
(* long as no encoder fails: the threads implement the encoder that has no *)
(* threads.                                                                *)
(***************************************************************************)
THEOREM ThreadsEncodeSequentially == Spec => EncodesSequentially
<1>1. Init => /\ TypeInv /\ LifeRest /\ UntilFailed /\ UntilAnyFailed
              /\ Sequential!Init
  <2> SUFFICES ASSUME Init PROVE Sequential!Init
    BY InitTyped, LifeInit, StreamInit, SeqInit DEF UntilFailed, UntilAnyFailed
  <2>1. open = Clients /\ sent = <<>> /\ failed = {} /\ main.pc = "idle"
    BY DEF Init
  <2>2. /\ main.rect = 0 /\ main.bands = 0 /\ main.delivered = FALSE
        /\ main.client = CHOOSE c \in Clients : TRUE
    BY DEF Init, AnyClient
  <2>3. ~Closing /\ (failed # {}) = FALSE
    BY <2>1 DEF Closing
  <2>4. (main.pc \in {"own", "await", "flush"}) = FALSE
    BY <2>1
  <2> QED
    BY <2>1, <2>2, <2>3, <2>4 DEF Sequential!Init
<1>2. TypeInv /\ LifeRest /\ UntilFailed /\ UntilAnyFailed /\ [Next]_vars
        => (TypeInv /\ LifeRest /\ UntilFailed /\ UntilAnyFailed)'
  BY NextTyped, LifeNext, StreamNext, SeqNext
<1>3. TypeInv /\ UntilFailed /\ UntilAnyFailed /\ [Next]_vars
        => [Sequential!Next]_Sequential!vars
  BY EveryStep
<1> QED
  BY <1>1, <1>2, <1>3, PTL DEF Spec, EncodesSequentially, Sequential!Spec

-----------------------------------------------------------------------------
(***************************************************************************)
(* A buffer never holds more than one band, not even in a shutdown, which  *)
(* SeqRest says nothing of: a worker that encodes, or was released to do   *)
(* so, has an empty buffer, and is not released again before it is done.   *)
(***************************************************************************)
Sole(i) ==
  /\ Len(param[i].buf) <= 1
  /\ At(i, "run") \/ (~ready[i] /\ ~param[i].deadyet) => param[i].buf = <<>>
  /\ At(i, "run") => ready[i] \/ param[i].deadyet

Single == \A i \in Workers : Sole(i)
UntilAnyFailedSingle == failed = {} => Single

\* A worker of which a step changes nothing of this, or no more than its buffer,
\* to nothing.
LEMMA SoleKept ==
  ASSUME NEW i \in Workers, Sole(i), At(i, "run")' => At(i, "run"),
         ready'[i] <=> ready[i], param'[i].deadyet <=> param[i].deadyet,
         param'[i].buf = param[i].buf \/ param'[i].buf = <<>>
  PROVE  Sole(i)'
<1>1. Len(<<>>) <= 1
  OBVIOUS
<1>2. Len(param'[i].buf) <= 1
  BY <1>1 DEF Sole
<1> QED
  BY <1>2 DEF Sole

\* It holds initially.
LEMMA SingleInit == Init => Single
<1> SUFFICES ASSUME Init, NEW i \in Workers PROVE Sole(i)
  BY DEF Single
<1>1. i \in Threads /\ Len(<<>>) <= 1
  BY DEF Workers, Threads
<1> QED
  BY <1>1 DEF Init, NoParam, Sole, At

\* A rectangle is given out: all buffers are empty.
LEMMA SingleBegin ==
  ASSUME TypeInv, LifeRest, StreamRest, SeqRest, NEW c \in Clients,
         NEW bands \in 1 .. NumThreads, Begin(c, bands)
  PROVE  Single'
<1> SUFFICES ASSUME NEW i \in Workers PROVE Sole(i)'
  BY DEF Single
<1>1. ~At(i, "run")'
  <2>1. CASE threadInit
    <3>1. ~Closing /\ ~Owes(i) /\ worker' = worker
      BY <2>1 DEF Begin, InitThreads, Closing, Owes
    <3> QED
      BY <2>1, <3>1
         DEF StreamRest, Handshakes, Handshake, Resting, AtRest, At
  <2>2. CASE ~threadInit
    <3>1. worker'[i].pc = "check"
      BY <2>2 DEF Begin, InitThreads
    <3> QED
      BY <3>1 DEF At
  <2> QED
    BY <2>1, <2>2
<1>2. param'[i].buf = <<>>
  <2>1. param \in [Threads -> ParamType] /\ i \in Threads
    BY TypeFacts
  <2>2. param[i].buf = <<>>
    <3>1. CASE threadInit
      <4>1. ~Closing /\ ~Filled(i)
        BY <3>1 DEF Begin, Closing, Filled
      <4> QED
        BY <3>1, <4>1 DEF SeqRest, Buffers, OfThisRect
    <3>2. CASE ~threadInit
      BY <3>2 DEF SeqRest, Buffers
    <3> QED
      BY <3>1, <3>2
  <2>3. param'[i] = IF i >= bands THEN param[i]
                    ELSE [param[i] EXCEPT !.client = c, !.rect = main.rect + 1,
                                          !.bands = bands, !.status = TRUE]
    BY <2>1 DEF Begin
  <2> QED
    BY <2>1, <2>2, <2>3 DEF ParamType
<1>3. Len(<<>>) <= 1
  OBVIOUS
<1> QED
  BY <1>1, <1>2, <1>3 DEF Sole

\* The server encodes, waits, writes or gives a client up.
LEMMA SingleServer ==
  ASSUME TypeInv, Single,
         \/ Server
         \/ \E c \in Clients : Connect(c) \/ Disconnect(c)
         \/ UNCHANGED vars
  PROVE  Single'
<1>1. /\ param \in [Threads -> ParamType] /\ worker \in [Workers -> WorkerType]
      /\ ready \in [Workers -> BOOLEAN] /\ Workers \subseteq Threads
  BY TypeFacts
<1>2. CASE UNCHANGED <<worker, param, ready>>
  BY <1>2, SoleKept DEF Single, At
<1>3. CASE Flush
  <2>1. CASE CloseClient
    BY <1>2, <2>1 DEF CloseClient
  <2>2. CASE ~CloseClient
    <3>1. /\ param' = [param EXCEPT ![main.next].buf = <<>>]
          /\ UNCHANGED <<worker, ready>>
      BY <1>3, <2>2 DEF Flush
    <3>2. ASSUME NEW i \in Workers
          PROVE  /\ param'[i].deadyet = param[i].deadyet
                 /\ param'[i].buf = param[i].buf \/ param'[i].buf = <<>>
      BY <1>1, <3>1 DEF ParamType
    <3> QED
      BY <3>1, <3>2, SoleKept DEF Single, At
  <2> QED
    BY <2>1, <2>2
<1>4. CASE Dismiss
  <2>1. /\ param' = [param EXCEPT ![main.next].deadyet = TRUE]
        /\ ready' = [ready EXCEPT ![main.next] = FALSE] /\ worker' = worker
    BY <1>4 DEF Dismiss
  <2>2. ASSUME NEW i \in Workers PROVE Sole(i)'
    <3>1. Sole(i) /\ param[i] \in ParamType
      BY <1>1 DEF Single
    <3>2. CASE i = main.next
      <4>1. param'[i].buf = param[i].buf /\ param'[i].deadyet
        BY <1>1, <2>1, <3>1, <3>2 DEF ParamType
      <4> QED
        BY <2>1, <3>1, <4>1 DEF Sole, At
    <3>3. CASE i # main.next
      <4>1. param'[i] = param[i] /\ ready'[i] = ready[i]
        BY <1>1, <2>1, <3>3
      <4> QED
        BY <2>1, <3>1, <4>1, SoleKept DEF At
    <3> QED
      BY <3>2, <3>3
  <2> QED
    BY <2>2 DEF Single
<1>5. CASE Join
  <2>1. UNCHANGED <<param, ready>>
    BY <1>5 DEF Join
  <2>2. ASSUME NEW i \in Workers PROVE At(i, "run")' => At(i, "run")
    BY <1>1, <1>5 DEF Join, WorkerType, At
  <2> QED
    BY <2>1, <2>2, SoleKept DEF Single
<1>6. CASE ClientConnectionGone
  <2>1. ASSUME NEW i \in Workers PROVE Sole(i)'
    <3>1. /\ param'[i].buf = <<>> /\ ready'[i] /\ worker' = worker
      BY <1>1, <1>6 DEF ClientConnectionGone, NoParam
    <3>2. Len(<<>>) <= 1
      OBVIOUS
    <3> QED
      BY <3>1, <3>2 DEF Sole
  <2> QED
    BY <2>1 DEF Single
<1>7. CASE OwnBand \/ Await
  BY <1>2, <1>7 DEF OwnBand, Await, CloseClient
<1> QED
  BY <1>2, <1>3, <1>4, <1>5, <1>6, <1>7 DEF Server, Connect, Disconnect, vars

\* A worker moves.
LEMMA SingleWorker ==
  ASSUME TypeInv, Single, NEW i \in Workers, Worker(i) PROVE Single'
<1> SUFFICES ASSUME NEW j \in Workers PROVE Sole(j)'
  BY DEF Single
<1>1. /\ param \in [Threads -> ParamType] /\ worker \in [Workers -> WorkerType]
      /\ ready \in [Workers -> BOOLEAN] /\ Workers \subseteq Threads
  BY TypeFacts
<1>2. Sole(j) /\ Sole(i)
  BY DEF Single
<1>3. CASE j # i
  <2>1. UNCHANGED <<worker[j], param[j], ready[j]>>
    BY <1>3, WorkerFrame
  <2> QED
    BY <1>2, <2>1, SoleKept DEF At
<1>4. CASE j = i /\ (Check(i) \/ Signal(i))
  <2>1. UNCHANGED <<param, ready>> /\ ~At(i, "run")'
    <3>1. CASE Check(i)
      BY <1>1, <3>1 DEF Check, GoTo, At, WorkerType
    <3>2. CASE Signal(i)
      BY <1>1, <3>2 DEF Signal, GoTo, At, WorkerType
    <3> QED
      BY <1>4, <3>1, <3>2
  <2> QED
    BY <1>2, <1>4, <2>1, SoleKept
<1>5. CASE j = i /\ Take(i)
  <2>1. param' = param /\ ready'[i] /\ ~ready[i]
    BY <1>1, <1>5 DEF Take
  <2>2. At(i, "run")' => ~param[i].deadyet
    BY <1>1, <1>5, <2>1, WorkerFrame
  <2> QED
    BY <1>2, <1>5, <2>1, <2>2 DEF Sole
<1>6. CASE j = i /\ Encode(i)
  <2>1. ready' = ready /\ At(i, "run") /\ ~At(i, "run")'
    BY <1>1, <1>6 DEF Encode, GoTo, At, WorkerType
  <2>2. /\ param'[i].buf = Append(param[i].buf, Band(worker[i].rect, i))
        /\ param'[i].deadyet = param[i].deadyet
    BY <1>1, <1>6 DEF Encode, ParamType
  <2>3. param[i].buf = <<>> /\ (ready[i] \/ param[i].deadyet)
    BY <1>2, <2>1 DEF Sole
  <2>4. \A b : Len(Append(<<>>, b)) <= 1
    OBVIOUS
  <2>5. Len(param'[i].buf) <= 1
    BY <2>2, <2>3, <2>4
  <2> QED
    BY <1>6, <2>1, <2>2, <2>3, <2>5 DEF Sole
<1> QED
  BY <1>3, <1>4, <1>5, <1>6 DEF Worker

\* Every step keeps it.
LEMMA SingleNext ==
  ASSUME TypeInv, LifeRest, UntilFailed, UntilAnyFailed, UntilAnyFailedSingle,
         [Next]_vars
  PROVE  UntilAnyFailedSingle'
<1> SUFFICES ASSUME failed' = {} PROVE Single'
  BY DEF UntilAnyFailedSingle
<1>1. StreamRest /\ SeqRest /\ Single
  BY FailedGrows, SMTT(40) DEF UntilFailed, UntilAnyFailed, UntilAnyFailedSingle
<1> QED
  BY <1>1, SingleBegin, SingleServer, SingleWorker DEF Next

\* Only threads fail.
LEMMA FailedTyped ==
  ASSUME failed \subseteq Threads, [Next]_vars PROVE failed' \subseteq Threads
<1>1. 0 \in Threads /\ Workers \subseteq Threads
  BY TightThreadsAssumption DEF Threads, Workers
<1>2. CASE OwnBand
  BY <1>1, <1>2 DEF OwnBand, CloseClient
<1>3. ASSUME NEW i \in Workers, Encode(i) PROVE failed' \subseteq Threads
  BY <1>1, <1>3 DEF Encode
<1>4. CASE failed' = failed
  BY <1>4
<1> QED
  BY <1>2, <1>3, <1>4 DEF Next, vars, Begin, Connect, Disconnect, Server,
     CloseClient, Await, Flush, Dismiss, Join, ClientConnectionGone, Worker,
     Check, Take, Signal

(***************************************************************************)
(* The variables have their types, and as long as no encoder fails a       *)
(* worker's buffer (updateBuf of its tparam) never holds the output of     *)
(* more than one band.                                                     *)
(***************************************************************************)
THEOREM ThreadsTyped == Spec => []TypeOK
<1> DEFINE Inv == /\ TypeInv /\ LifeRest /\ UntilFailed /\ UntilAnyFailed
                  /\ UntilAnyFailedSingle /\ failed \subseteq Threads
<1>1. Init => Inv
  <2> SUFFICES ASSUME Init PROVE failed \subseteq Threads
    BY InitTyped, LifeInit, StreamInit, SeqInit, SingleInit
       DEF UntilFailed, UntilAnyFailed, UntilAnyFailedSingle
  <2> QED
    BY DEF Init
<1>2. Inv /\ [Next]_vars => Inv'
  BY NextTyped, LifeNext, StreamNext, SeqNext, SingleNext, FailedTyped
<1>3. Inv => TypeOK
  BY DEF TypeInv, UntilAnyFailedSingle, Single, Sole, TypeOK
<1> QED
  BY <1>1, <1>2, <1>3, PTL DEF Spec
=============================================================================
