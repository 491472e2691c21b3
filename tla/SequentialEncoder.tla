------------------------- MODULE SequentialEncoder -------------------------
(***************************************************************************)
(* What the Tight encoder promises of a rectangle, however many threads    *)
(* encode it (rfbSendRectEncodingTight, tight.c 383-473): its bands reach  *)
(* the client it was encoded for, each once and from top to bottom, or     *)
(* that client is dropped.  One thread and no buffer but the stream.       *)
(***************************************************************************)
EXTENDS Naturals, Sequences

CONSTANTS
  Clients,
  NumThreads,  \* rfbNumThreads: the most bands of a rectangle
  MaxRects     \* bound: the number of rectangles

VARIABLES
  open,  \* the clients that are connected
  job,   \* the rectangle in hand, or the last one
  sent,  \* what was written of it
  broken \* an encoder has failed, and nothing is promised any more

vars == <<open, job, sent, broken>>

Band(rect, i) == [rect |-> rect, band |-> i]

Init ==
  /\ open = Clients
  /\ job = [rect |-> 0, bands |-> 0, client |-> CHOOSE c \in Clients : TRUE,
            busy |-> FALSE, delivered |-> FALSE]
  /\ sent = <<>> /\ broken = FALSE

Begin(c, bands) ==
  /\ ~job.busy /\ c \in open /\ job.rect < MaxRects
  /\ job' = [rect |-> job.rect + 1, bands |-> bands, client |-> c,
             busy |-> TRUE, delivered |-> FALSE]
  /\ sent' = <<>>
  /\ UNCHANGED open

\* The next band is written; the last one completes the rectangle.
SendBand ==
  /\ job.busy /\ Len(sent) < job.bands
  /\ sent' = Append(sent, Band(job.rect, Len(sent)))
  /\ job' = [job EXCEPT !.busy = Len(sent') < job.bands,
                        !.delivered = Len(sent') = job.bands]
  /\ UNCHANGED open

\* A write fails and the client is dropped.
Fail ==
  /\ job.busy
  /\ job' = [job EXCEPT !.busy = FALSE]
  /\ open' = open \ {job.client}
  /\ UNCHANGED sent

Disconnect(c) ==
  /\ ~job.busy /\ c \in open
  /\ open' = open \ {c}
  /\ job' = [job EXCEPT !.client = c, !.delivered = FALSE]
  /\ UNCHANGED sent

Connect(c) ==
  /\ ~job.busy /\ c \notin open
  /\ open' = open \cup {c}
  /\ UNCHANGED <<job, sent>>

Next ==
  \/ broken'
  \/ /\ UNCHANGED broken
     /\ \/ \E c \in Clients, bands \in 1 .. NumThreads : Begin(c, bands)
        \/ SendBand \/ Fail
        \/ \E c \in Clients : Disconnect(c) \/ Connect(c)

Spec == Init /\ [][Next]_vars
=============================================================================
