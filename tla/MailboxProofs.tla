---------------------------- MODULE MailboxProofs ----------------------------
(* Proofs about Mailbox and PropertyCall, for FIFOs of any depth, any       *)
(* number of retries and any number of messages nobody asked for.           *)
(*                                                                          *)
(* First the mailbox alone; then the layout of a property message, for any  *)
(* list of tags (its folds by induction over Nat, as sets of numbers); then *)
(* the messages of the kernel under the calls and the walk of the GPU.      *)
EXTENDS PropertyCall, SequenceTheorems, WellFoundedInduction, TLAPS

(* The messages on their way: sent and not taken back.                     *)
InFlight == Len(outbox) + Len(inbox) + (IF gpu_state = "idle" THEN 0 ELSE 1)

(* No more than the foreign ones and the caller's own.                     *)
Backlog == InFlight \leq foreign + (IF pc = "empty" THEN 1 ELSE 0)

OnlyForeign(q) == \A k \in 1 .. Len(q) : q[k] = Foreign

OneAnswer(q, b) ==
    \E k \in 1 .. Len(q) :
        /\ q[k] = b
        /\ \A j \in 1 .. Len(q) : j # k => q[j] = Foreign

(* Up to the first caller that misses its answer: nothing of an earlier    *)
(* call is on its way, and the message of this one is in one place.        *)
Quiet == outbox = << >> /\ gpu_state = "idle" /\ OnlyForeign(inbox)

Sent      == outbox = <<msg>> /\ gpu_state = "idle" /\ OnlyForeign(inbox)
Working   == /\ outbox = << >> /\ gpu_state = "working" /\ gpu_msg = msg
             /\ OnlyForeign(inbox)
Answering == /\ outbox = << >> /\ gpu_state = "answering" /\ gpu_msg = msg
             /\ OnlyForeign(inbox) /\ code[msg] # "request"
Replied   == /\ outbox = << >> /\ gpu_state = "idle"
             /\ OneAnswer(inbox, msg) /\ code[msg] # "request"

OwnInv ==
    ~missed => IF pc = "empty" THEN Sent \/ Working \/ Answering \/ Replied
                               ELSE Quiet

ForeignInv == foreign = 0 => \A k \in 1 .. Len(inbox) : inbox[k] # Foreign

IInv == TypeOK /\ Backlog /\ OwnInv /\ ForeignInv /\ MissedByForeign

-----------------------------------------------------------------------------
LEMMA TakeForeign ==
  ASSUME NEW q \in Seq(Data), q # << >>
  PROVE  /\ Tail(q) \in Seq(Data) /\ Len(Tail(q)) = Len(q) - 1
         /\ Head(q) = q[1] /\ Head(q) \in Data
         /\ \A k \in 1 .. Len(q) - 1 : Tail(q)[k] = q[k + 1]
         /\ OnlyForeign(q) => Head(q) = Foreign /\ OnlyForeign(Tail(q))
<1>1. Len(q) \in Nat \ {0} /\ Len(Tail(q)) = Len(q) - 1
  OBVIOUS
<1>2. \A k \in 1 .. Len(q) - 1 : Tail(q)[k] = q[k + 1]
  OBVIOUS
<1>3. Head(q) = q[1] /\ Head(q) \in Data /\ Tail(q) \in Seq(Data)
  OBVIOUS
<1>4. OnlyForeign(q) => Head(q) = Foreign /\ OnlyForeign(Tail(q))
  <2>1. 1 \in 1 .. Len(q)
    BY <1>1
  <2>2. \A k \in 1 .. Len(q) - 1 : k + 1 \in 1 .. Len(q)
    BY <1>1
  <2> QED BY <1>1, <1>2, <1>3, <2>1, <2>2 DEF OnlyForeign
<1> QED
  BY <1>1, <1>2, <1>3, <1>4

LEMMA TakeAnswer ==
  ASSUME NEW q \in Seq(Data), NEW b \in Buffers, OneAnswer(q, b)
  PROVE  /\ q # << >>
         /\ Head(q) = b => OnlyForeign(Tail(q))
         /\ Head(q) # b => Head(q) = Foreign /\ OneAnswer(Tail(q), b)
<1>1. PICK k \in 1 .. Len(q) :
         q[k] = b /\ \A j \in 1 .. Len(q) : j # k => q[j] = Foreign
  BY DEF OneAnswer
<1>2. Len(q) \in Nat /\ q # << >> /\ 1 \in 1 .. Len(q) /\ Foreign # b
  BY <1>1, MailboxAssumption DEF MailboxAssumption
<1>3. /\ Len(Tail(q)) = Len(q) - 1 /\ Head(q) = q[1]
      /\ \A j \in 1 .. Len(q) - 1 : Tail(q)[j] = q[j + 1]
  BY <1>2, TakeForeign
<1>4. \A j \in 1 .. Len(q) - 1 : j + 1 \in 1 .. Len(q)
  BY <1>2
<1>5. CASE k = 1
  BY <1>1, <1>2, <1>3, <1>4, <1>5 DEF OnlyForeign
<1>6. CASE k # 1
  <2>1. k - 1 \in 1 .. Len(q) - 1 /\ (k - 1) + 1 = k
    BY <1>1, <1>2, <1>6
  <2>2. Tail(q)[k - 1] = b
    BY <1>1, <1>3, <2>1
  <2>3. \A j \in 1 .. Len(q) - 1 : j # k - 1 => j + 1 # k
    BY <1>1, <1>2
  <2>4. \A j \in 1 .. Len(q) - 1 : j # k - 1 => Tail(q)[j] = Foreign
    BY <1>1, <1>3, <1>4, <2>3
  <2>5. Head(q) = Foreign
    BY <1>1, <1>2, <1>3, <1>6
  <2> QED BY <1>2, <1>3, <2>1, <2>2, <2>4, <2>5 DEF OneAnswer
<1> QED
  BY <1>5, <1>6

LEMMA AddMessage ==
  ASSUME NEW q \in Seq(Data), NEW b \in Buffers
  PROVE  /\ OnlyForeign(q) => OnlyForeign(Append(q, Foreign))
         /\ OnlyForeign(q) => OneAnswer(Append(q, b), b)
         /\ OneAnswer(q, b) => OneAnswer(Append(q, Foreign), b)
<1> DEFINE n == Len(q)
<1>1. n \in Nat
  OBVIOUS
<1>2. ASSUME NEW d \in Data
      PROVE  /\ Len(Append(q, d)) = n + 1 /\ Append(q, d)[n + 1] = d
             /\ \A k \in 1 .. n : Append(q, d)[k] = q[k]
  OBVIOUS
<1>3. Foreign \in Data /\ b \in Data
  BY DEF Data
<1>4. /\ \A k \in 1 .. n + 1 : k \in 1 .. n \/ k = n + 1
      /\ n + 1 \in 1 .. n + 1
      /\ \A k \in 1 .. n : k \in 1 .. n + 1 /\ k # n + 1
  BY <1>1
<1>5. OnlyForeign(q) => OnlyForeign(Append(q, Foreign))
  BY <1>2, <1>3, <1>4 DEF OnlyForeign
<1>6. OnlyForeign(q) => OneAnswer(Append(q, b), b)
  BY <1>2, <1>3, <1>4 DEF OnlyForeign, OneAnswer
<1>7. ASSUME OneAnswer(q, b) PROVE OneAnswer(Append(q, Foreign), b)
  <2>1. PICK k \in 1 .. n :
           q[k] = b /\ \A j \in 1 .. n : j # k => q[j] = Foreign
    BY <1>7 DEF OneAnswer
  <2>2. \A j \in 1 .. n + 1 : j # k => Append(q, Foreign)[j] = Foreign
    BY <1>2, <1>3, <1>4, <2>1
  <2>3. Append(q, Foreign)[k] = b
    BY <1>2, <1>3, <2>1
  <2> QED BY <1>2, <1>3, <1>4, <2>1, <2>2, <2>3 DEF OneAnswer
<1> QED
  BY <1>5, <1>6, <1>7

-----------------------------------------------------------------------------
LEMMA TypesOfFifos ==
  TypeOK => /\ outbox \in Seq(Buffers) /\ Len(outbox) \in Nat
            /\ inbox \in Seq(Data) /\ Len(inbox) \in Nat
            /\ foreign \in Nat /\ Depth \in Nat /\ msg \in Buffers
            /\ gpu_msg \in Buffers
BY MailboxAssumption DEF MailboxAssumption, TypeOK

LEMMA InitInv == Init => IInv
<1> SUFFICES ASSUME Init PROVE IInv
  OBVIOUS
<1>1. Depth \in Nat /\ MaxRetry \in Nat \ {0} /\ MaxForeign \in Nat
  BY MailboxAssumption DEF MailboxAssumption
<1>2. TypeOK
  <2>1. /\ << >> \in Seq(Buffers) /\ << >> \in Seq(Data)
        /\ Len(<< >>) \leq Depth /\ 0 \in 0 .. MaxRetry - 1
        /\ 0 \in 0 .. MaxForeign
    BY <1>1
  <2>2. code \in [Buffers -> {"request", "success", "error"}]
    BY DEF Init
  <2> QED BY <2>1, <2>2 DEF Init, TypeOK
<1>3. Backlog
  <2>1. Len(outbox) = 0 /\ Len(inbox) = 0
    BY DEF Init
  <2> QED BY <2>1 DEF Init, Backlog, InFlight
<1>4. OnlyForeign(<< >>)
  BY DEF OnlyForeign
<1>5. OwnInv
  <2>1. OnlyForeign(inbox)
    BY <1>4 DEF Init
  <2> QED BY <2>1 DEF Init, OwnInv, Quiet
<1>6. ForeignInv
  BY DEF Init, ForeignInv
<1> QED
  BY <1>2, <1>3, <1>5, <1>6 DEF Init, IInv, MissedByForeign

LEMMA CallMailboxInv == IInv /\ CallMailbox => IInv'
<1> SUFFICES ASSUME IInv, CallMailbox PROVE IInv'
  OBVIOUS
<1>1. /\ pc = "idle" /\ pc' = "full"
      /\ UNCHANGED <<outbox, inbox, gpu_state, gpu_msg, foreign, missed>>
  BY DEF CallMailbox, gpuVars
<1>2. TypeOK'
  <2>1. code' \in [Buffers -> {"request", "success", "error"}]
    BY DEF CallMailbox, IInv, TypeOK
  <2>2. MaxRetry \in Nat \ {0}
    BY MailboxAssumption DEF MailboxAssumption
  <2> QED
    BY <1>1, <2>1, <2>2 DEF CallMailbox, IInv, TypeOK
<1>3. Backlog' /\ ForeignInv' /\ MissedByForeign'
  BY <1>1 DEF IInv, Backlog, InFlight, ForeignInv, MissedByForeign
<1>4. OwnInv'
  BY <1>1 DEF IInv, OwnInv, Quiet
<1> QED
  BY <1>2, <1>3, <1>4 DEF IInv

LEMMA SendInv == IInv /\ send_message => IInv'
<1> SUFFICES ASSUME IInv, send_message PROVE IInv'
  OBVIOUS
<1>1. /\ pc = "full" /\ pc' = "empty" /\ outbox' = Append(outbox, msg)
      /\ Len(outbox) < Depth
      /\ UNCHANGED <<inbox, gpu_state, gpu_msg, code, msg, foreign, missed>>
  BY DEF send_message
<1>2. /\ outbox \in Seq(Buffers) /\ msg \in Buffers /\ Depth \in Nat
      /\ Len(outbox) \in Nat /\ Len(inbox) \in Nat /\ foreign \in Nat
  BY TypesOfFifos DEF IInv
<1>3. outbox' \in Seq(Buffers) /\ Len(outbox') = Len(outbox) + 1
  BY <1>1, <1>2
<1>4. TypeOK'
  BY <1>1, <1>2, <1>3 DEF IInv, TypeOK, send_message
<1>5. Backlog'
  BY <1>1, <1>2, <1>3 DEF IInv, Backlog, InFlight
<1>6. OwnInv'
  <2>1. outbox = << >> => outbox' = <<msg>>
    BY <1>1, <1>2
  <2> QED
    BY <1>1, <2>1 DEF IInv, OwnInv, Quiet, Sent
<1>7. ForeignInv' /\ MissedByForeign'
  BY <1>1 DEF IInv, ForeignInv, MissedByForeign
<1> QED
  BY <1>4, <1>5, <1>6, <1>7 DEF IInv

(* What every read has in common.                                          *)
LEMMA ReadStep ==
  ASSUME IInv, read_message, pc = "empty", pc' \in {"idle", "empty"},
         i' \in 0 .. MaxRetry - 1, result' \in BOOLEAN, missed' \in BOOLEAN,
         UNCHANGED <<outbox, gpu_state, gpu_msg, code, kind, msg, foreign>>
  PROVE  /\ TypeOK' /\ Backlog' /\ ForeignInv'
         /\ Head(inbox) = inbox[1] /\ inbox # << >> /\ inbox' = Tail(inbox)
         /\ Head(inbox) \in Data
<1>1. /\ inbox \in Seq(Data) /\ inbox # << >> /\ inbox' = Tail(inbox)
      /\ Len(outbox) \in Nat /\ Len(inbox) \in Nat /\ foreign \in Nat
      /\ Depth \in Nat
  BY TypesOfFifos DEF IInv, read_message
<1>2. /\ inbox' \in Seq(Data) /\ Len(inbox') = Len(inbox) - 1
      /\ \A k \in 1 .. Len(inbox) - 1 : inbox'[k] = inbox[k + 1]
      /\ Head(inbox) = inbox[1] /\ Head(inbox) \in Data
  BY <1>1, TakeForeign
<1>3. TypeOK'
  <2>1. Len(inbox') \leq Depth
    BY <1>1, <1>2 DEF IInv, TypeOK
  <2> QED
    BY <1>2, <2>1 DEF IInv, TypeOK
<1>4. Backlog'
  BY <1>1, <1>2 DEF IInv, Backlog, InFlight
<1>5. ForeignInv'
  <2>1. \A k \in 1 .. Len(inbox) - 1 : k + 1 \in 1 .. Len(inbox)
    BY <1>1
  <2> QED
    BY <1>2, <2>1 DEF IInv, ForeignInv
<1> QED
  BY <1>1, <1>2, <1>3, <1>4, <1>5

(* What a caller finds that has missed nothing so far: its answer, and     *)
(* then nothing of its call is left, or a foreign message.                 *)
LEMMA ReadOwn ==
  ASSUME IInv, read_message, pc = "empty", ~missed,
         UNCHANGED <<outbox, gpu_state, gpu_msg, code, msg>>
  PROVE  /\ Head(inbox) = msg => code[msg] # "request" /\ Quiet'
         /\ Head(inbox) # msg =>
               /\ Head(inbox) = Foreign
               /\ Sent' \/ Working' \/ Answering' \/ Replied'
<1>1. /\ inbox \in Seq(Data) /\ inbox # << >> /\ inbox' = Tail(inbox)
      /\ msg \in Buffers /\ msg # Foreign
  BY TypesOfFifos, MailboxAssumption
  DEF IInv, read_message, MailboxAssumption
<1>2. Sent \/ Working \/ Answering \/ Replied
  BY DEF IInv, OwnInv
<1>3. OnlyForeign(inbox) => Head(inbox) = Foreign /\ OnlyForeign(inbox')
  BY <1>1, TakeForeign
<1>4. OneAnswer(inbox, msg) =>
         /\ Head(inbox) = msg => OnlyForeign(inbox')
         /\ Head(inbox) # msg => Head(inbox) = Foreign
                                 /\ OneAnswer(inbox', msg)
  BY <1>1, TakeAnswer
<1>5. /\ OnlyForeign(inbox)' <=> OnlyForeign(inbox')
      /\ OneAnswer(inbox, msg)' <=> OneAnswer(inbox', msg)
  BY DEF OnlyForeign, OneAnswer
<1>6. CASE Sent
  BY <1>1, <1>3, <1>6 DEF Sent
<1>7. CASE Working
  BY <1>1, <1>3, <1>7 DEF Working
<1>8. CASE Answering
  BY <1>1, <1>3, <1>8 DEF Answering
<1>9. CASE Replied
  BY <1>1, <1>4, <1>9 DEF Replied, Quiet
<1> QED
  BY <1>2, <1>6, <1>7, <1>8, <1>9

LEMMA PropertyReturnsInv ==
  IInv /\ PropertyReturns => IInv' /\ (~missed' => code[msg] # "request")
<1> SUFFICES ASSUME IInv, PropertyReturns
             PROVE  IInv' /\ (~missed' => code[msg] # "request")
  OBVIOUS
<1>1. /\ pc = "empty" /\ pc' = "idle" /\ read_message
      /\ missed' = (missed \/ Head(inbox) # msg)
      /\ UNCHANGED <<outbox, gpu_state, gpu_msg, code, kind, msg, i, result,
                     foreign>>
  BY DEF PropertyReturns
<1>2. i' \in 0 .. MaxRetry - 1 /\ result' \in BOOLEAN /\ missed' \in BOOLEAN
  BY <1>1 DEF IInv, TypeOK
<1>3. TypeOK' /\ Backlog' /\ ForeignInv' /\ Head(inbox) = inbox[1]
      /\ inbox # << >>
  BY <1>1, <1>2, ReadStep
<1>4. ~missed' => ~missed /\ Head(inbox) = msg
  BY <1>1
<1>5. ~missed' => code[msg] # "request" /\ Quiet'
  BY <1>1, <1>4, ReadOwn
<1>6. OwnInv'
  BY <1>1, <1>5 DEF OwnInv
<1>7. MissedByForeign'
  <2>1. CASE missed
    BY <1>1, <2>1 DEF IInv, MissedByForeign
  <2>2. CASE ~missed /\ missed'
    <3>1. Head(inbox) = Foreign
      BY <1>1, <2>2, ReadOwn
    <3>2. 1 \in 1 .. Len(inbox)
      BY <1>3, TypesOfFifos DEF IInv
    <3>3. foreign # 0
      BY <1>3, <3>1, <3>2 DEF IInv, ForeignInv
    <3> QED BY <1>1, <3>3, TypesOfFifos DEF IInv, MissedByForeign
  <2> QED BY <2>1, <2>2 DEF MissedByForeign
<1> QED
  BY <1>3, <1>5, <1>6, <1>7 DEF IInv

LEMMA CallAnsweredInv ==
  IInv /\ CallAnswered => IInv' /\ (~missed' => code[msg] # "request")
<1> SUFFICES ASSUME IInv, CallAnswered
             PROVE  IInv' /\ (~missed' => code[msg] # "request")
  OBVIOUS
<1>1. /\ pc = "empty" /\ pc' = "idle" /\ read_message /\ Head(inbox) = msg
      /\ result' = (code[msg] = "success")
      /\ UNCHANGED <<outbox, gpu_state, gpu_msg, code, kind, msg, i, foreign,
                     missed>>
  BY DEF CallAnswered
<1>2. i' \in 0 .. MaxRetry - 1 /\ missed' \in BOOLEAN
  BY <1>1 DEF IInv, TypeOK
<1>3. result' \in BOOLEAN
  BY <1>1
<1>4. TypeOK' /\ Backlog' /\ ForeignInv'
  BY <1>1, <1>2, <1>3, ReadStep
<1>5. ~missed' => code[msg] # "request" /\ Quiet'
  BY <1>1, ReadOwn
<1>6. OwnInv' /\ MissedByForeign'
  BY <1>1, <1>5 DEF OwnInv, IInv, MissedByForeign
<1> QED
  BY <1>4, <1>5, <1>6 DEF IInv

LEMMA CallRetriesInv ==
  IInv /\ CallRetries => IInv' /\ (pc' = "idle" => missed')
<1> SUFFICES ASSUME IInv, CallRetries
             PROVE  IInv' /\ (pc' = "idle" => missed')
  OBVIOUS
<1>1. /\ pc = "empty" /\ read_message /\ Head(inbox) # msg
      /\ UNCHANGED <<outbox, gpu_state, gpu_msg, code, kind, msg, foreign>>
  BY DEF CallRetries
<1>2. \/ /\ i + 1 < MaxRetry /\ i' = i + 1
         /\ UNCHANGED <<pc, result, missed>>
      \/ /\ pc' = "idle" /\ result' = FALSE /\ missed' = TRUE
         /\ UNCHANGED i
  BY DEF CallRetries
<1>3. /\ i' \in 0 .. MaxRetry - 1 /\ missed' \in BOOLEAN
      /\ result' \in BOOLEAN /\ pc' \in {"idle", "empty"}
  <2>1. MaxRetry \in Nat
    BY MailboxAssumption DEF MailboxAssumption
  <2>2. i \in 0 .. MaxRetry - 1 /\ missed \in BOOLEAN /\ result \in BOOLEAN
    BY DEF IInv, TypeOK
  <2>3. i' \in 0 .. MaxRetry - 1
    BY <1>2, <2>1, <2>2
  <2>4. missed' \in BOOLEAN /\ result' \in BOOLEAN
    BY <1>2, <2>2, Zenon
  <2>5. pc' \in {"idle", "empty"}
    BY <1>1, <1>2
  <2> QED BY <2>3, <2>4, <2>5
<1>4. TypeOK' /\ Backlog' /\ ForeignInv' /\ Head(inbox) = inbox[1]
      /\ inbox # << >>
  BY <1>1, <1>3, ReadStep
<1>5. OwnInv'
  BY <1>1, <1>2, ReadOwn DEF OwnInv
<1>6. MissedByForeign'
  <2>1. CASE missed
    BY <1>1, <2>1 DEF IInv, MissedByForeign
  <2>2. CASE ~missed /\ missed'
    <3>1. Head(inbox) = Foreign
      BY <1>1, <2>2, ReadOwn
    <3>2. 1 \in 1 .. Len(inbox)
      BY <1>4, TypesOfFifos DEF IInv
    <3>3. foreign # 0
      BY <1>4, <3>1, <3>2 DEF IInv, ForeignInv
    <3> QED BY <1>1, <3>3, TypesOfFifos DEF IInv, MissedByForeign
  <2> QED BY <2>1, <2>2 DEF MissedByForeign
<1> QED
  BY <1>1, <1>2, <1>4, <1>5, <1>6 DEF IInv

LEMMA GpuTakesInv == IInv /\ GpuTakes => IInv'
<1> SUFFICES ASSUME IInv, GpuTakes PROVE IInv'
  OBVIOUS
<1>1. /\ gpu_state = "idle" /\ outbox # << >> /\ gpu_state' = "working"
      /\ gpu_msg' = Head(outbox) /\ outbox' = Tail(outbox)
      /\ UNCHANGED <<inbox, code, pc, kind, msg, i, result, missed, foreign>>
  BY DEF GpuTakes, callerVars
<1>2. /\ outbox \in Seq(Buffers) /\ Len(outbox) \in Nat
      /\ Len(inbox) \in Nat /\ foreign \in Nat /\ Depth \in Nat
      /\ msg \in Buffers
  BY TypesOfFifos DEF IInv
<1>3. /\ outbox' \in Seq(Buffers) /\ Len(outbox') = Len(outbox) - 1
      /\ gpu_msg' \in Buffers
  BY <1>1, <1>2
<1>4. TypeOK'
  <2>1. Len(outbox') \leq Depth
    BY <1>2, <1>3 DEF IInv, TypeOK
  <2> QED BY <1>1, <1>3, <2>1 DEF IInv, TypeOK
<1>5. Backlog'
  BY <1>1, <1>2, <1>3 DEF IInv, Backlog, InFlight
<1>6. OwnInv'
  <2>1. OnlyForeign(inbox)' <=> OnlyForeign(inbox)
    BY <1>1 DEF OnlyForeign
  <2>2. outbox = <<msg>> => gpu_msg' = msg /\ outbox' = << >>
    BY <1>1, <1>2
  <2>3. ~missed => pc = "empty" /\ Sent
    BY <1>1 DEF IInv, OwnInv, Quiet, Working, Answering, Replied
  <2>4. Sent => Working'
    BY <1>1, <2>1, <2>2 DEF Sent, Working
  <2> QED BY <1>1, <2>3, <2>4 DEF OwnInv
<1>7. ForeignInv' /\ MissedByForeign'
  BY <1>1 DEF IInv, ForeignInv, MissedByForeign
<1> QED
  BY <1>4, <1>5, <1>6, <1>7 DEF IInv

LEMMA GpuWritesInv ==
  IInv /\ GpuWrites => IInv' /\ (~missed => pc = "empty" /\ msg = gpu_msg)
<1> SUFFICES ASSUME IInv, GpuWrites
             PROVE  IInv' /\ (~missed => pc = "empty" /\ msg = gpu_msg)
  OBVIOUS
<1>1. PICK c \in {"success", "error"} : code' = [code EXCEPT ![gpu_msg] = c]
  BY DEF GpuWrites
<1>2. /\ gpu_state = "working" /\ gpu_state' = "answering"
      /\ UNCHANGED <<outbox, inbox, gpu_msg, pc, kind, msg, i, result, missed,
                     foreign>>
  BY DEF GpuWrites, callerVars
<1>3. /\ code \in [Buffers -> {"request", "success", "error"}]
      /\ gpu_msg \in Buffers
  BY DEF IInv, TypeOK
<1>4. /\ code' \in [Buffers -> {"request", "success", "error"}]
      /\ code'[gpu_msg] # "request"
  BY <1>1, <1>3
<1>5. TypeOK'
  BY <1>2, <1>4 DEF IInv, TypeOK
<1>6. Backlog' /\ ForeignInv' /\ MissedByForeign'
  BY <1>2 DEF IInv, Backlog, InFlight, ForeignInv, MissedByForeign
<1>7. ~missed => pc = "empty" /\ Working
  BY <1>2 DEF IInv, OwnInv, Quiet, Sent, Answering, Replied
<1>8. Working => Answering'
  <2>1. OnlyForeign(inbox)' <=> OnlyForeign(inbox)
    BY <1>2 DEF OnlyForeign
  <2> QED BY <1>2, <1>4, <2>1 DEF Working, Answering
<1>9. OwnInv'
  BY <1>2, <1>7, <1>8 DEF OwnInv
<1> QED
  BY <1>5, <1>6, <1>7, <1>9 DEF IInv, Working

(* A message added to the FIFO of the ARM.                                 *)
LEMMA InboxGrows ==
  ASSUME IInv, NEW d \in Data, inbox' = Append(inbox, d),
         Len(inbox) < Depth
  PROVE  /\ inbox' \in Seq(Data) /\ Len(inbox') \leq Depth
         /\ Len(inbox') = Len(inbox) + 1
         /\ d # Foreign /\ (\A k \in 1 .. Len(inbox) : inbox[k] # Foreign)
              => \A k \in 1 .. Len(inbox') : inbox'[k] # Foreign
<1>1. inbox \in Seq(Data) /\ Len(inbox) \in Nat /\ Depth \in Nat
  BY TypesOfFifos DEF IInv
<1>2. /\ inbox' \in Seq(Data) /\ Len(inbox') = Len(inbox) + 1
      /\ inbox'[Len(inbox) + 1] = d
      /\ \A k \in 1 .. Len(inbox) : inbox'[k] = inbox[k]
  BY <1>1
<1>3. \A k \in 1 .. Len(inbox) + 1 : k \in 1 .. Len(inbox) \/ k = Len(inbox) + 1
  BY <1>1
<1>4. d # Foreign /\ (\A k \in 1 .. Len(inbox) : inbox[k] # Foreign)
        => \A k \in 1 .. Len(inbox') : inbox'[k] # Foreign
  BY <1>2, <1>3
<1> QED
  BY <1>1, <1>2, <1>4

LEMMA GpuAnswersInv == IInv /\ GpuAnswers => IInv'
<1> SUFFICES ASSUME IInv, GpuAnswers PROVE IInv'
  OBVIOUS
<1>1. /\ gpu_state = "answering" /\ Len(inbox) < Depth
      /\ inbox' = Append(inbox, gpu_msg) /\ gpu_state' = "idle"
      /\ UNCHANGED <<outbox, gpu_msg, code, pc, kind, msg, i, result, missed,
                     foreign>>
  BY DEF GpuAnswers, callerVars
<1>2. /\ inbox \in Seq(Data) /\ gpu_msg \in Buffers /\ gpu_msg \in Data
      /\ gpu_msg # Foreign /\ Len(outbox) \in Nat /\ Len(inbox) \in Nat
      /\ foreign \in Nat
  BY TypesOfFifos, MailboxAssumption DEF IInv, Data, MailboxAssumption
<1>3. /\ inbox' \in Seq(Data) /\ Len(inbox') \leq Depth
      /\ Len(inbox') = Len(inbox) + 1
      /\ (\A k \in 1 .. Len(inbox) : inbox[k] # Foreign)
            => \A k \in 1 .. Len(inbox') : inbox'[k] # Foreign
  BY <1>1, <1>2, InboxGrows
<1>4. TypeOK'
  BY <1>1, <1>3 DEF IInv, TypeOK
<1>5. Backlog'
  BY <1>1, <1>2, <1>3 DEF IInv, Backlog, InFlight
<1>6. ForeignInv' /\ MissedByForeign'
  BY <1>1, <1>3 DEF IInv, ForeignInv, MissedByForeign
<1>7. ~missed => pc = "empty" /\ Answering
  BY <1>1 DEF IInv, OwnInv, Quiet, Sent, Working, Replied
<1>8. Answering => Replied'
  <2>1. OnlyForeign(inbox) => OneAnswer(inbox', gpu_msg)
    BY <1>1, <1>2, AddMessage
  <2>2. OneAnswer(inbox, msg)' <=> OneAnswer(inbox', msg)
    BY <1>1 DEF OneAnswer
  <2> QED BY <1>1, <2>1, <2>2 DEF Answering, Replied
<1>9. OwnInv'
  BY <1>1, <1>7, <1>8 DEF OwnInv
<1> QED
  BY <1>4, <1>5, <1>6, <1>9 DEF IInv

LEMMA GpuSendsInv == IInv /\ GpuSends => IInv'
<1> SUFFICES ASSUME IInv, GpuSends PROVE IInv'
  OBVIOUS
<1>1. /\ foreign < MaxForeign /\ Len(inbox) < Depth
      /\ inbox' = Append(inbox, Foreign) /\ foreign' = foreign + 1
      /\ UNCHANGED <<outbox, gpu_state, gpu_msg, code, pc, kind, msg, i,
                     result, missed>>
  BY DEF GpuSends, callerVars
<1>2. /\ inbox \in Seq(Data) /\ Foreign \in Data /\ Len(outbox) \in Nat
      /\ Len(inbox) \in Nat /\ foreign \in Nat /\ msg \in Buffers
      /\ MaxForeign \in Nat
  BY TypesOfFifos, MailboxAssumption DEF IInv, Data, MailboxAssumption
<1>3. /\ inbox' \in Seq(Data) /\ Len(inbox') \leq Depth
      /\ Len(inbox') = Len(inbox) + 1
  BY <1>1, <1>2, InboxGrows
<1>4. TypeOK'
  BY <1>1, <1>2, <1>3 DEF IInv, TypeOK
<1>5. Backlog'
  BY <1>1, <1>2, <1>3 DEF IInv, Backlog, InFlight
<1>6. ForeignInv' /\ MissedByForeign'
  BY <1>1, <1>2 DEF ForeignInv, MissedByForeign
<1>7. /\ OnlyForeign(inbox) => OnlyForeign(inbox)'
      /\ OneAnswer(inbox, msg) => OneAnswer(inbox, msg)'
  <2>1. /\ OnlyForeign(inbox) => OnlyForeign(inbox')
        /\ OneAnswer(inbox, msg) => OneAnswer(inbox', msg)
    BY <1>1, <1>2, AddMessage
  <2> QED BY <1>1, <2>1 DEF OnlyForeign, OneAnswer
<1>8. OwnInv'
  BY <1>1, <1>7
  DEF IInv, OwnInv, Quiet, Sent, Working, Answering, Replied
<1> QED
  BY <1>4, <1>5, <1>6, <1>8 DEF IInv

LEMMA StepInv == IInv /\ [Next]_vars => IInv'
<1> SUFFICES ASSUME IInv, [Next]_vars PROVE IInv'
  OBVIOUS
<1>1. CASE CallMailbox     BY <1>1, CallMailboxInv
<1>2. CASE send_message    BY <1>2, SendInv
<1>3. CASE PropertyReturns BY <1>3, PropertyReturnsInv
<1>4. CASE CallAnswered    BY <1>4, CallAnsweredInv
<1>5. CASE CallRetries     BY <1>5, CallRetriesInv
<1>6. CASE GpuTakes        BY <1>6, GpuTakesInv
<1>7. CASE GpuWrites       BY <1>7, GpuWritesInv
<1>8. CASE GpuAnswers      BY <1>8, GpuAnswersInv
<1>9. CASE GpuSends        BY <1>9, GpuSendsInv
<1>10. CASE UNCHANGED vars
  <2>1. UNCHANGED <<outbox, inbox, gpu_state, gpu_msg, code, pc, kind, msg, i,
                    result, missed, foreign>>
    BY <1>10 DEF vars, gpuVars, callerVars
  <2>2. TypeOK'
    BY <2>1 DEF IInv, TypeOK
  <2>3. Backlog' /\ ForeignInv' /\ MissedByForeign'
    BY <2>1 DEF IInv, Backlog, InFlight, ForeignInv, MissedByForeign
  <2>4. OwnInv'
    BY <2>1 DEF IInv, OwnInv, Quiet, Sent, Working, Answering, Replied,
                OnlyForeign, OneAnswer
  <2> QED BY <2>2, <2>3, <2>4 DEF IInv
<1> QED
  BY <1>1, <1>2, <1>3, <1>4, <1>5, <1>6, <1>7, <1>8, <1>9, <1>10
  DEF Next, Caller, Gpu

(* The inductive invariant: what is on its way is the foreign messages and *)
(* the caller's own, in one place.                                         *)
THEOREM Invariant == Spec => []IInv
BY InitInv, StepInv, PTL DEF Spec

(* The FIFOs are never overfilled.                                         *)
THEOREM TypeCorrect == Spec => []TypeOK
BY Invariant, PTL DEF IInv

(* Without foreign messages no caller misses its answer.                   *)
THEOREM MissedOnlyByForeign == Spec => []MissedByForeign
BY Invariant, PTL DEF IInv

(* The ARM and the GPU never wait for room in both FIFOs at once, up to    *)
(* twice the depth of one in foreign messages.                             *)
THEOREM NoDeadlyEmbrace == Spec => []NeverStuck
<1>1. IInv => NeverStuck
  <2> SUFFICES ASSUME IInv, foreign \leq 2 * Depth, Stuck PROVE FALSE
    BY DEF NeverStuck
  <2>1. /\ Len(outbox) = Depth /\ Len(inbox) = Depth
        /\ InFlight = Depth + Depth + 1
    BY TypesOfFifos DEF IInv, Stuck, InFlight
  <2>2. InFlight \leq foreign
    BY TypesOfFifos DEF IInv, Stuck, Backlog
  <2> QED
    BY <2>1, <2>2, TypesOfFifos DEF IInv
<1> QED
  BY <1>1, Invariant, PTL

(* The request of a caller that waits is the last one the GPU has yet to   *)
(* write, and it has yet to write it as long as it is a request.           *)
OwnIsLast ==
    pc = "empty" => /\ ToWrite > 0 => LastToWrite = msg
                    /\ code[msg] = "request" => ToWrite > 0

LEMMA OwnIsLastStep ==
  ASSUME TypeOK, TypeOK', OwnIsLast, [Next]_vars
  PROVE  OwnIsLast'
<1>1. /\ ToWrite > 0 <=> outbox # << >> \/ gpu_state = "working"
      /\ (ToWrite > 0)' <=> outbox' # << >> \/ gpu_state' = "working"
  <2>1. /\ outbox \in Seq(Buffers) /\ Len(outbox) \in Nat
        /\ outbox' \in Seq(Buffers) /\ Len(outbox') \in Nat
    BY DEF TypeOK
  <2>2. /\ Len(outbox) > 0 <=> outbox # << >>
        /\ Len(outbox') > 0 <=> outbox' # << >>
    BY <2>1
  <2> QED
    BY <2>1, <2>2 DEF ToWrite
<1>2. /\ outbox \in Seq(Buffers) /\ msg \in Buffers /\ Len(outbox) \in Nat
      /\ code \in [Buffers -> {"request", "success", "error"}]
      /\ gpu_msg \in Buffers
  BY TypesOfFifos DEF TypeOK
<1>3. CASE CallMailbox
  BY <1>3 DEF CallMailbox, OwnIsLast
<1>4. CASE send_message
  <2>1. outbox' = Append(outbox, msg) /\ msg' = msg
    BY <1>4 DEF send_message
  <2>2. outbox' # << >> /\ outbox'[Len(outbox')] = msg
    BY <1>2, <2>1
  <2> QED
    BY <1>1, <2>1, <2>2 DEF OwnIsLast, LastToWrite
<1>5. CASE PropertyReturns \/ CallAnswered
  BY <1>5 DEF PropertyReturns, CallAnswered, OwnIsLast
<1>6. CASE CallRetries
  <2>1. /\ UNCHANGED <<outbox, gpu_state, gpu_msg, code, msg>>
        /\ pc' = "empty" => pc = "empty"
    BY <1>6 DEF CallRetries
  <2> QED
    BY <2>1 DEF OwnIsLast, ToWrite, LastToWrite
<1>7. CASE GpuTakes
  <2>1. /\ outbox # << >> /\ outbox' = Tail(outbox)
        /\ gpu_state' = "working" /\ gpu_msg' = Head(outbox)
        /\ UNCHANGED <<pc, msg, code>>
    BY <1>7 DEF GpuTakes, callerVars
  <2>2. IF outbox' = << >> THEN gpu_msg' = outbox[Len(outbox)]
        ELSE outbox'[Len(outbox')] = outbox[Len(outbox)]
    <3>1. /\ Len(outbox) \in Nat \ {0} /\ outbox' \in Seq(Buffers)
          /\ Len(outbox') = Len(outbox) - 1 /\ Head(outbox) = outbox[1]
          /\ \A k \in 1 .. Len(outbox) - 1 : outbox'[k] = outbox[k + 1]
      BY <1>2, <2>1
    <3>2. CASE Len(outbox) = 1
      BY <2>1, <3>1, <3>2
    <3>3. CASE Len(outbox) # 1
      <4>1. /\ Len(outbox) - 1 \in 1 .. Len(outbox) - 1
            /\ (Len(outbox) - 1) + 1 = Len(outbox)
        BY <3>1, <3>3
      <4>2. outbox' # << >>
        BY <3>1, <3>3
      <4> QED
        BY <3>1, <4>1, <4>2
    <3> QED
      BY <3>2, <3>3
  <2>3. LastToWrite' = LastToWrite
    BY <2>1, <2>2 DEF LastToWrite
  <2> QED
    BY <1>1, <2>1, <2>3 DEF OwnIsLast
<1>8. CASE GpuWrites
  <2>1. /\ gpu_state = "working" /\ gpu_state' = "answering"
        /\ UNCHANGED <<outbox, gpu_msg, pc, msg>>
    BY <1>8 DEF GpuWrites, callerVars
  <2>2. code'[gpu_msg] # "request"
    BY <1>2, <1>8 DEF GpuWrites
  <2>3. outbox' = << >> /\ pc = "empty" => code'[msg] # "request"
    BY <1>1, <2>1, <2>2 DEF OwnIsLast, LastToWrite
  <2> QED
    BY <1>1, <2>1, <2>3 DEF OwnIsLast, LastToWrite
<1>9. CASE GpuAnswers
  <2>1. /\ gpu_state = "answering" /\ gpu_state' = "idle"
        /\ UNCHANGED <<outbox, gpu_msg, pc, msg, code>>
    BY <1>9 DEF GpuAnswers, callerVars
  <2> QED
    BY <1>1, <2>1 DEF OwnIsLast, LastToWrite
<1>10. CASE GpuSends \/ UNCHANGED vars
  <2>1. UNCHANGED <<outbox, gpu_state, gpu_msg, pc, msg, code>>
    BY <1>10 DEF GpuSends, callerVars, gpuVars, vars
  <2> QED
    BY <2>1 DEF OwnIsLast, ToWrite, LastToWrite
<1> QED
  BY <1>3, <1>4, <1>5, <1>6, <1>7, <1>8, <1>9, <1>10 DEF Next, Caller, Gpu

LEMMA OwnIsLastInvariant == Spec => []OwnIsLast
<1>1. Init => OwnIsLast
  BY DEF Init, OwnIsLast
<1>2. OwnIsLast /\ TypeOK /\ TypeOK' /\ [Next]_vars => OwnIsLast'
  BY OwnIsLastStep
<1> QED
  BY <1>1, <1>2, TypeCorrect, PTL DEF Spec

(* Who goes on with a message the GPU has not written does so after a      *)
(* foreign message, and leaves the request with the GPU; call does so with *)
(* its retries used up or at an answer to an earlier message of the same   *)
(* address.                                                                *)
THEOREM AnswersAreThere == Spec => Answered
<1> DEFINE Going == pc = "empty" /\ pc' = "idle" /\ code[msg] = "request" =>
                      /\ foreign > 0
                      /\ ToWrite > 0 /\ LastToWrite = msg
                      /\ kind = "call" => Head(inbox) = msg \/ i = MaxRetry - 1
<1>1. IInv /\ OwnIsLast /\ [Next]_vars => Going
  <2> SUFFICES ASSUME IInv, OwnIsLast, [Next]_vars,
                      pc = "empty", pc' = "idle", code[msg] = "request"
               PROVE  /\ foreign > 0
                      /\ ToWrite > 0 /\ LastToWrite = msg
                      /\ kind = "call" => Head(inbox) = msg \/ i = MaxRetry - 1
    OBVIOUS
  <2>1. PropertyReturns \/ CallAnswered \/ CallRetries
    BY DEF Next, Caller, Gpu, CallMailbox, send_message, GpuTakes, GpuWrites,
           GpuAnswers, GpuSends, callerVars, vars
  <2>2. /\ inbox # << >>
        /\ kind = "call" => Head(inbox) = msg \/ i + 1 = MaxRetry
    BY <2>1 DEF PropertyReturns, CallAnswered, CallRetries, read_message
  <2>3. ToWrite > 0 /\ LastToWrite = msg
    BY DEF OwnIsLast
  <2>4. Len(inbox) \in Nat \ {0} /\ foreign \in Nat /\ Len(outbox) \in Nat
    BY <2>2, TypesOfFifos DEF IInv
  <2>5. foreign > 0
    BY <2>3, <2>4 DEF IInv, Backlog, InFlight, ToWrite
  <2>6. i \in Int /\ MaxRetry \in Int
    BY MailboxAssumption DEF IInv, TypeOK, MailboxAssumption
  <2> QED
    BY <2>2, <2>3, <2>5, <2>6
<1>2. [][Going]_vars <=> Answered
  BY DEF Answered
<1> HIDE DEF Going
<1> QED
  BY <1>1, <1>2, Invariant, OwnIsLastInvariant, PTL DEF Spec

(* Of the messages the GPU has yet to write only the last is of a waiting  *)
(* caller, and the others are no more than the foreign messages.           *)
THEOREM LateWritesAreFew == Spec => []LateWrites
<1>1. IInv /\ OwnIsLast => LateWrites
  <2> SUFFICES ASSUME IInv, OwnIsLast PROVE LateWrites
    OBVIOUS
  <2>1. Len(inbox) \in Nat /\ foreign \in Nat /\ Len(outbox) \in Nat
    BY TypesOfFifos DEF IInv
  <2>2. ToWrite \leq foreign + (IF pc = "empty" THEN 1 ELSE 0)
    BY <2>1 DEF IInv, Backlog, InFlight, ToWrite
  <2> QED
    BY <2>2 DEF OwnIsLast, LateWrites
<1> QED
  BY <1>1, Invariant, OwnIsLastInvariant, PTL

-----------------------------------------------------------------------------
LEMMA Least ==
  ASSUME NEW T \in SUBSET Nat, T # {}
  PROVE  \E x \in T : \A y \in T : x \leq y
<1>1. PICK x \in T : \A y \in T : <<y, x>> \notin OpToRel(<, Nat)
  BY NatLessThanWellFounded, WFMin
<1>2. ASSUME NEW y \in T PROVE x \leq y
  <2>1. <<y, x>> \notin OpToRel(<, Nat)
    BY <1>1, <1>2
  <2>2. ~(y < x)
    BY <2>1 DEF OpToRel
  <2>3. QED
    BY <2>2
<1>3. QED
  BY <1>2

(* Induction, over a set of numbers and not over an operator.              *)
LEMMA Induction ==
  ASSUME NEW T \in SUBSET Nat, 0 \in T, \A n \in T : n + 1 \in T
  PROVE  Nat \subseteq T
<1> SUFFICES ASSUME Nat \ T # {} PROVE FALSE
  OBVIOUS
<1>1. PICK x \in Nat \ T : \A y \in Nat \ T : x \leq y
  BY Least
<1>2. x # 0 /\ x - 1 \in Nat /\ x - 1 \in T
  BY <1>1
<1>3. (x - 1) + 1 \in T
  BY <1>2
<1>4. QED
  BY <1>1, <1>3

LEMMA SeqOfLength ==
  ASSUME NEW n \in Nat, NEW S, NEW f \in [1 .. n -> S]
  PROVE  f \in Seq(S) /\ Len(f) = n
<1>1. f \in Seq(S)
  BY SeqDef
<1>2. DOMAIN f = 1 .. n /\ DOMAIN f = 1 .. Len(f) /\ Len(f) \in Nat
  BY <1>1, LenProperties
<1>3. QED
  BY <1>1, <1>2

-----------------------------------------------------------------------------
(* A sum from the left over z, as FoldLeft builds it: a function of the    *)
(* sets of indices that are left.                                          *)
IsFold(h, z, D) ==
    h = [s \in SUBSET D |->
            IF s = {} THEN 0 ELSE h[s \ {Max(s)}] + z[Max(s)]]

LEMMA MaxIn ==
  ASSUME NEW n \in Nat, NEW s \in SUBSET (1 .. n), s # {}
  PROVE  Max(s) \in s /\ \A y \in s : Max(s) \geq y
<1> DEFINE T == {k \in Nat : \E y \in s : k = n - y}
<1>1. PICK y0 \in s : TRUE
  OBVIOUS
<1>2. n - y0 \in T
  BY <1>1
<1>3. PICK k \in T : \A j \in T : k \leq j
  BY <1>2, Least
<1>4. PICK x \in s : k = n - x
  BY <1>3
<1>5. ASSUME NEW y \in s PROVE x \geq y
  <2>1. n - y \in T
    OBVIOUS
  <2>2. k \leq n - y
    BY <1>3, <2>1
  <2>3. QED
    BY <1>4, <2>2
<1>6. QED
  BY <1>5 DEF Max

LEMMA MaxIs ==
  ASSUME NEW n \in Nat, NEW s \in SUBSET (1 .. n + 1), n + 1 \in s
  PROVE  Max(s) = n + 1 /\ s \ {Max(s)} \in SUBSET (1 .. n)
<1>1. Max(s) \in s /\ \A y \in s : Max(s) \geq y
  <2>1. n + 1 \in Nat /\ s # {}
    OBVIOUS
  <2>2. QED
    BY <2>1, MaxIn
<1>2. Max(s) \in 1 .. n + 1 /\ Max(s) \geq n + 1
  BY <1>1
<1>3. Max(s) = n + 1
  BY <1>2
<1>4. s \ {n + 1} \in SUBSET (1 .. n)
  OBVIOUS
<1>5. QED
  BY <1>3, <1>4

LEMMA FoldExists ==
  ASSUME NEW z, NEW n \in Nat
  PROVE  \E h : IsFold(h, z, 1 .. n)
<1> DEFINE T == {k \in Nat : \E h : IsFold(h, z, 1 .. k)}
<1>1. 0 \in T
  <2>1. SUBSET (1 .. 0) = {{}}
    OBVIOUS
  <2> DEFINE g == [s \in SUBSET (1 .. 0) |-> 0]
  <2>2. IsFold(g, z, 1 .. 0)
    BY <2>1 DEF IsFold
  <2>3. QED
    BY <2>2
<1>2. ASSUME NEW k \in T PROVE k + 1 \in T
  <2>1. PICK h : IsFold(h, z, 1 .. k)
    OBVIOUS
  <2> DEFINE g == [s \in SUBSET (1 .. k + 1) |->
                     IF s = {} THEN 0
                     ELSE IF k + 1 \in s THEN h[s \ {k + 1}] + z[k + 1]
                     ELSE h[s]]
  <2>2. ASSUME NEW s \in SUBSET (1 .. k + 1)
        PROVE  g[s] = IF s = {} THEN 0 ELSE g[s \ {Max(s)}] + z[Max(s)]
    <3>1. CASE s = {}
      BY <3>1
    <3>2. CASE k + 1 \in s
      <4>1. Max(s) = k + 1 /\ s \ {k + 1} \in SUBSET (1 .. k)
        BY <3>2, MaxIs
      <4>2. s \ {k + 1} \in SUBSET (1 .. k + 1) /\ k + 1 \notin s \ {k + 1}
        OBVIOUS
      <4>3. g[s] = h[s \ {k + 1}] + z[k + 1]
        BY <3>2
      <4>4. g[s \ {k + 1}] = h[s \ {k + 1}]
        <5>1. h[{}] = 0
          BY <2>1 DEF IsFold
        <5>2. CASE s \ {k + 1} = {}
          BY <4>2, <5>1, <5>2
        <5>3. CASE s \ {k + 1} # {}
          BY <4>2, <5>3
        <5>4. QED
          BY <5>2, <5>3
      <4> HIDE DEF g
      <4>5. QED
        BY <3>2, <4>1, <4>3, <4>4
    <3>3. CASE s # {} /\ k + 1 \notin s
      <4>1. s \in SUBSET (1 .. k)
        BY <3>3
      <4>2. \A x : s \ {x} \in SUBSET (1 .. k + 1) /\ k + 1 \notin s \ {x}
        BY <3>3
      <4>3. h[{}] = 0 /\ h[s] = h[s \ {Max(s)}] + z[Max(s)]
        BY <2>1, <3>3, <4>1 DEF IsFold
      <4>4. g[s] = h[s]
        BY <3>3
      <4>5. g[s \ {Max(s)}] = h[s \ {Max(s)}]
        <5>1. CASE s \ {Max(s)} = {}
          BY <4>2, <4>3, <5>1
        <5>2. CASE s \ {Max(s)} # {}
          BY <4>2, <5>2
        <5>3. QED
          BY <5>1, <5>2
      <4> HIDE DEF g
      <4>6. QED
        BY <3>3, <4>3, <4>4, <4>5
    <3>4. QED
      BY <3>1, <3>2, <3>3
  <2>3. IsFold(g, z, 1 .. k + 1)
    <3> DEFINE e == [s \in SUBSET (1 .. k + 1) |->
                      IF s = {} THEN 0 ELSE g[s \ {Max(s)}] + z[Max(s)]]
    <3>1. g = e
      BY <2>2
    <3> HIDE DEF g
    <3>2. QED
      BY <3>1 DEF IsFold
  <2>4. QED
    BY <2>3
<1>3. Nat \subseteq T
  <2> HIDE DEF T
  <2>1. T \in SUBSET Nat
    BY DEF T
  <2>2. QED
    BY <1>1, <1>2, <2>1, Induction
<1>4. QED
  BY <1>3

LEMMA FoldStep ==
  ASSUME NEW n \in Nat, NEW h, NEW z, IsFold(h, z, 1 .. n)
  PROVE  /\ h[1 .. 0] = 0
         /\ \A j \in 0 .. n - 1 : h[1 .. j + 1] = h[1 .. j] + z[j + 1]
<1>1. h[1 .. 0] = 0
  <2>1. 1 .. 0 = {} /\ {} \in SUBSET (1 .. n)
    OBVIOUS
  <2>2. QED
    BY <2>1 DEF IsFold
<1>2. ASSUME NEW j \in 0 .. n - 1
      PROVE  h[1 .. j + 1] = h[1 .. j] + z[j + 1]
  <2>1. Max(1 .. j + 1) = j + 1
    <3>1. /\ j \in Nat /\ (1 .. j + 1) \in SUBSET (1 .. j + 1)
          /\ j + 1 \in 1 .. j + 1
      OBVIOUS
    <3>2. QED
      BY <3>1, MaxIs
  <2>2. /\ (1 .. j + 1) \in SUBSET (1 .. n) /\ 1 .. j + 1 # {}
        /\ (1 .. j + 1) \ {j + 1} = 1 .. j
    OBVIOUS
  <2>3. QED
    BY <2>1, <2>2 DEF IsFold
<1>3. QED
  BY <1>1, <1>2

LEMMA FoldIs ==
  ASSUME NEW q, NEW m \in Nat, DOMAIN q = 1 .. m,
         NEW z, \A x \in 1 .. m : z[x] = SizeOf(q[x])
  PROVE  \E h : /\ IsFold(h, z, 1 .. m)
                /\ FoldLeft(LAMBDA n, t : n + SizeOf(t), 0, q) = h[1 .. m]
<1> DEFINE R(h) == [s \in SUBSET DOMAIN q |->
                     IF s = {} THEN 0 ELSE h[s \ {Max(s)}] + SizeOf(q[Max(s)])]
           h0 == CHOOSE h : h = R(h)
<1>1. FoldLeft(LAMBDA n, t : n + SizeOf(t), 0, q) = h0[DOMAIN q]
  BY DEF FoldLeft, MapThenFoldSet
<1>2. ASSUME NEW h
      PROVE  h = R(h) <=> IsFold(h, z, 1 .. m)
  <2> DEFINE e == [s \in SUBSET (1 .. m) |->
                     IF s = {} THEN 0 ELSE h[s \ {Max(s)}] + z[Max(s)]]
  <2>1. ASSUME NEW s \in SUBSET (1 .. m)
        PROVE  (IF s = {} THEN 0 ELSE h[s \ {Max(s)}] + z[Max(s)])
                 = (IF s = {} THEN 0 ELSE h[s \ {Max(s)}] + SizeOf(q[Max(s)]))
    BY MaxIn
  <2>2. R(h) = e
    BY <2>1
  <2>3. IsFold(h, z, 1 .. m) <=> h = e
    BY DEF IsFold
  <2> HIDE DEF R, e
  <2>4. QED
    BY <2>2, <2>3
<1>3. \E h : h = R(h)
  BY <1>2, FoldExists
<1>4. h0 = R(h0)
  <2> HIDE DEF R
  <2>1. QED
    BY <1>3
<1> HIDE DEF R, h0
<1>5. QED
  BY <1>1, <1>2, <1>4

LEMMA FoldSum ==
  ASSUME NEW n \in Nat, NEW m \in 0 .. n, NEW z, NEW g, NEW h,
         IsFold(g, z, 1 .. n), IsFold(h, z, 1 .. m)
  PROVE  h[1 .. m] = g[1 .. m]
<1> DEFINE T == {j \in Nat : j \leq m => h[1 .. j] = g[1 .. j]}
<1>1. 0 \in T
  BY FoldStep
<1>2. ASSUME NEW j \in T PROVE j + 1 \in T
  <2> SUFFICES ASSUME j + 1 \leq m PROVE h[1 .. j + 1] = g[1 .. j + 1]
    OBVIOUS
  <2>1. j \in 0 .. m - 1 /\ j \in 0 .. n - 1
    OBVIOUS
  <2>2. h[1 .. j + 1] = h[1 .. j] + z[j + 1]
    BY <2>1, FoldStep
  <2>3. g[1 .. j + 1] = g[1 .. j] + z[j + 1]
    BY <2>1, FoldStep
  <2>4. h[1 .. j] = g[1 .. j]
    BY <2>1
  <2>5. QED
    BY <2>2, <2>3, <2>4
<1>3. Nat \subseteq T
  <2> HIDE DEF T
  <2>1. T \in SUBSET Nat
    BY DEF T
  <2>2. QED
    BY <1>1, <1>2, <2>1, Induction
<1>4. QED
  BY <1>3

-----------------------------------------------------------------------------
(* The offsets of get_tag.                                                 *)
Tag == [id : Nat \ {0}, size : Nat, code : Int, value : Seq(Int)]

LEMMA TagsOf ==
  ASSUME NEW tags \in Seq(Tag)
  PROVE  /\ Len(tags) \in Nat
         /\ \A k \in 1 .. Len(tags) :
               tags[k] \in Tag /\ SizeOf(tags[k]) \in Nat
<1>1. ASSUME NEW k \in 1 .. Len(tags)
      PROVE  tags[k] \in Tag /\ SizeOf(tags[k]) \in Nat
  <2>1. tags[k] \in Tag
    OBVIOUS
  <2>2. tags[k].value \in Seq(Int)
    BY <2>1 DEF Tag
  <2>3. Len(tags[k].value) \in Nat
    BY <2>2
  <2>4. QED
    BY <2>1, <2>3 DEF SizeOf
<1>2. QED
  BY <1>1

LEMMA OffsetFold ==
  ASSUME NEW tags \in Seq(Tag), NEW k \in 1 .. Len(tags) + 1,
         NEW z, \A j \in 1 .. Len(tags) : z[j] = SizeOf(tags[j]),
         NEW g, IsFold(g, z, 1 .. Len(tags))
  PROVE  Offset(tags, k) = g[1 .. k - 1]
<1> DEFINE q == SubSeq(tags, 1, k - 1)
<1>1. k - 1 \in 0 .. Len(tags) /\ k - 1 \in Nat
  OBVIOUS
<1>2. q \in Seq(Tag) /\ Len(q) = k - 1 /\ \A j \in 1 .. k - 1 : q[j] = tags[j]
  <2>1. \A j \in 1 .. k - 1 : tags[j] \in Tag
    BY <1>1
  <2>2. 1 \in Int /\ k - 1 \in Int
    BY <1>1
  <2>3. /\ q \in Seq(Tag)
        /\ Len(q) = IF 1 \leq k - 1 THEN (k - 1) - 1 + 1 ELSE 0
        /\ \A j \in 1 .. (k - 1) - 1 + 1 : q[j] = tags[1 + j - 1]
    <3> HIDE DEF q
    <3>1. QED
      BY <2>1, <2>2, SubSeqProperties DEF q
  <2> HIDE DEF q
  <2>4. QED
    BY <1>1, <2>3
<1>3. DOMAIN q = 1 .. k - 1
  BY <1>2, LenProperties
<1>4. \A j \in 1 .. k - 1 : z[j] = SizeOf(q[j])
  <2> HIDE DEF q
  <2>1. QED
    BY <1>1, <1>2
<1>5. PICK h : /\ IsFold(h, z, 1 .. k - 1)
               /\ FoldLeft(LAMBDA n, t : n + SizeOf(t), 0, q) = h[1 .. k - 1]
  <2> HIDE DEF q
  <2>1. QED
    BY <1>1, <1>3, <1>4, FoldIs
<1>6. Offset(tags, k) = h[1 .. k - 1]
  BY <1>5 DEF Offset
<1>7. h[1 .. k - 1] = g[1 .. k - 1]
  <2>1. Len(tags) \in Nat
    OBVIOUS
  <2>2. IsFold(h, z, 1 .. k - 1)
    BY <1>5
  <2>3. QED
    BY <1>1, <2>1, <2>2, FoldSum
<1>8. QED
  BY <1>6, <1>7

LEMMA OffsetIs ==
  ASSUME NEW tags \in Seq(Tag)
  PROVE  /\ Offset(tags, 1) = 0
         /\ \A k \in 1 .. Len(tags) :
               Offset(tags, k + 1) = Offset(tags, k) + SizeOf(tags[k])
         /\ total_tag_size(tags) = 4 * Offset(tags, Len(tags) + 1)
<1> DEFINE n == Len(tags)
           z == [j \in 1 .. n |-> SizeOf(tags[j])]
<1>1. n \in Nat /\ \A j \in 1 .. n : z[j] = SizeOf(tags[j])
  OBVIOUS
<1> HIDE DEF z
<1>2. PICK g : IsFold(g, z, 1 .. n)
  BY <1>1, FoldExists
<1>3. \A k \in 1 .. n + 1 : Offset(tags, k) = g[1 .. k - 1]
  BY <1>1, <1>2, OffsetFold
<1>4. g[1 .. 0] = 0 /\ \A j \in 0 .. n - 1 : g[1 .. j + 1] = g[1 .. j] + z[j + 1]
  BY <1>1, <1>2, FoldStep
<1>5. Offset(tags, 1) = 0
  <2>1. 1 \in 1 .. n + 1 /\ 1 - 1 = 0
    BY <1>1
  <2>2. QED
    BY <1>3, <1>4, <2>1
<1>6. ASSUME NEW k \in 1 .. n
      PROVE  Offset(tags, k + 1) = Offset(tags, k) + SizeOf(tags[k])
  <2>1. /\ k \in 1 .. n + 1 /\ k + 1 \in 1 .. n + 1 /\ (k + 1) - 1 = k
        /\ k - 1 \in 0 .. n - 1 /\ (k - 1) + 1 = k
    BY <1>1
  <2>2. g[1 .. k] = g[1 .. k - 1] + z[k]
    BY <1>4, <2>1
  <2>3. QED
    BY <1>1, <1>3, <2>1, <2>2
<1>7. total_tag_size(tags) = 4 * Offset(tags, n + 1)
  <2>1. SubSeq(tags, 1, n) = tags /\ (n + 1) - 1 = n
    BY <1>1, SubSeqFull
  <2>2. QED
    BY <2>1 DEF Offset, total_tag_size
<1>8. QED
  BY <1>5, <1>6, <1>7

(* A tag ends before the next one starts, and before the end of them all.  *)
LEMMA OffsetsGrow ==
  ASSUME NEW tags \in Seq(Tag)
  PROVE  \A k \in 1 .. Len(tags) + 1 :
            /\ Offset(tags, k) \in Nat
            /\ \A j \in 1 .. k - 1 :
                  /\ Offset(tags, j) \in Nat
                  /\ Offset(tags, j) + SizeOf(tags[j]) \leq Offset(tags, k)
<1> DEFINE n == Len(tags)
           P(k) == /\ Offset(tags, k) \in Nat
                   /\ \A j \in 1 .. k - 1 :
                         /\ Offset(tags, j) \in Nat
                         /\ Offset(tags, j) + SizeOf(tags[j])
                               \leq Offset(tags, k)
           T == {k \in Nat : k \leq n => P(k + 1)}
<1>1. n \in Nat /\ \A k \in 1 .. n : SizeOf(tags[k]) \in Nat
  BY TagsOf
<1>2. 0 \in T
  <2>1. Offset(tags, 1) = 0 /\ 0 + 1 = 1 /\ 1 .. 1 - 1 = {}
    BY OffsetIs
  <2>2. QED
    BY <2>1
<1>3. ASSUME NEW k \in T PROVE k + 1 \in T
  <2> SUFFICES ASSUME k + 1 \leq n PROVE P((k + 1) + 1)
    OBVIOUS
  <2>1. P(k + 1) /\ k + 1 \in 1 .. n
    BY <1>1
  <2>2. Offset(tags, (k + 1) + 1) = Offset(tags, k + 1) + SizeOf(tags[k + 1])
    BY <2>1, OffsetIs
  <2>3. ASSUME NEW j \in 1 .. (k + 1) + 1 - 1
        PROVE  /\ Offset(tags, j) \in Nat
               /\ Offset(tags, j) + SizeOf(tags[j])
                     \leq Offset(tags, (k + 1) + 1)
    <3>1. CASE j = k + 1
      BY <2>2, <3>1, <1>1, <2>1
    <3>2. CASE j # k + 1
      <4>1. j \in 1 .. (k + 1) - 1 /\ j \in 1 .. n
        BY <2>1, <3>2
      <4>2. /\ Offset(tags, j) \in Nat
            /\ Offset(tags, j) + SizeOf(tags[j]) \leq Offset(tags, k + 1)
        BY <2>1, <4>1
      <4>3. /\ SizeOf(tags[k + 1]) \in Nat /\ SizeOf(tags[j]) \in Nat
            /\ Offset(tags, k + 1) \in Nat
        BY <1>1, <2>1, <4>1
      <4>4. QED
        BY <2>2, <4>2, <4>3
    <3>3. QED
      BY <3>1, <3>2
  <2>4. Offset(tags, (k + 1) + 1) \in Nat
    BY <1>1, <2>1, <2>2
  <2>5. QED
    BY <2>3, <2>4
<1>4. Nat \subseteq T
  <2> HIDE DEF T
  <2>1. T \in SUBSET Nat
    BY DEF T
  <2>2. QED
    BY <1>2, <1>3, <2>1, Induction
<1>5. ASSUME NEW k \in 1 .. n + 1 PROVE P(k)
  <2>1. k - 1 \in Nat /\ k - 1 \leq n /\ (k - 1) + 1 = k
    BY <1>1
  <2>2. k - 1 \in T
    BY <1>4, <2>1
  <2>3. QED
    BY <2>1, <2>2
<1>6. QED
  BY <1>5

-----------------------------------------------------------------------------
(* What the constructor lays out.                                          *)
Words(t) == <<t.id, t.size, t.code>> \o t.value

LEMMA WordsOf ==
  ASSUME NEW t \in Tag
  PROVE  /\ Words(t) \in Seq(Int) /\ Len(Words(t)) = SizeOf(t)
         /\ SizeOf(t) \in Nat /\ SizeOf(t) \geq 3
         /\ Words(t)[1] = t.id /\ Words(t)[2] = t.size /\ Words(t)[3] = t.code
         /\ \A j \in 1 .. Len(t.value) : Words(t)[3 + j] = t.value[j]
<1> DEFINE h == <<t.id, t.size, t.code>>
           v == t.value
<1>1. v \in Seq(Int) /\ t.id \in Int /\ t.size \in Int /\ t.code \in Int
  BY DEF Tag
<1>2. /\ h \in Seq(Int) /\ Len(h) = 3
      /\ h[1] = t.id /\ h[2] = t.size /\ h[3] = t.code
  BY <1>1
<1>3. Len(v) \in Nat
  BY <1>1
<1>4. Words(t) = h \o v /\ SizeOf(t) = 3 + Len(v)
  BY DEF Words, SizeOf
<1> HIDE DEF h, v
<1>5. /\ h \o v \in Seq(Int) /\ Len(h \o v) = 3 + Len(v)
      /\ \A x \in 1 .. 3 + Len(v) :
            (h \o v)[x] = IF x \leq 3 THEN h[x] ELSE v[x - 3]
  <2>1. /\ h \o v \in Seq(Int) /\ Len(h \o v) = Len(h) + Len(v)
        /\ \A x \in 1 .. Len(h) + Len(v) :
              (h \o v)[x] = IF x \leq Len(h) THEN h[x] ELSE v[x - Len(h)]
    <3>1. h \in Seq(Int) /\ v \in Seq(Int)
      BY <1>1, <1>2
    <3>2. QED
      BY ONLY <3>1, ConcatProperties, Zenon
  <2>2. QED
    BY <1>2, <2>1
<1>6. \A j \in 1 .. Len(v) : (h \o v)[3 + j] = v[j]
  <2>1. \A j \in 1 .. Len(v) :
           3 + j \in 1 .. 3 + Len(v) /\ ~(3 + j \leq 3) /\ (3 + j) - 3 = j
    BY <1>3
  <2>2. QED
    BY <1>5, <2>1
<1>7. (h \o v)[1] = h[1] /\ (h \o v)[2] = h[2] /\ (h \o v)[3] = h[3]
  BY <1>3, <1>5
<1>8. QED
  BY <1>2, <1>3, <1>4, <1>5, <1>6, <1>7 DEF v

IsFlat(f, ms, n) ==
    f = [x \in 1 .. n |-> IF x = 1 THEN ms[x] ELSE f[x - 1] \o ms[x]]

LEMMA FlatExists ==
  ASSUME NEW ms, NEW n \in Nat
  PROVE  \E f : IsFlat(f, ms, n)
<1> DEFINE T == {k \in Nat : \E f : IsFlat(f, ms, k)}
<1>1. 0 \in T
  <2> DEFINE f == [x \in 1 .. 0 |-> << >>]
  <2>1. IsFlat(f, ms, 0)
    <3>1. 1 .. 0 = {}
      OBVIOUS
    <3>2. QED
      BY <3>1 DEF IsFlat
  <2>2. QED
    BY <2>1
<1>2. ASSUME NEW k \in T PROVE k + 1 \in T
  <2>1. PICK f : IsFlat(f, ms, k)
    OBVIOUS
  <2> DEFINE g == [x \in 1 .. k + 1 |->
                     IF x = 1 THEN ms[x]
                     ELSE IF x = k + 1 THEN f[k] \o ms[x] ELSE f[x]]
  <2>2. ASSUME NEW x \in 1 .. k + 1
        PROVE  g[x] = IF x = 1 THEN ms[x] ELSE g[x - 1] \o ms[x]
    <3>1. CASE x = 1
      BY <3>1
    <3>2. CASE x # 1
      <4>1. x - 1 \in 1 .. k /\ x - 1 \in 1 .. k + 1 /\ x - 1 # k + 1
        BY <3>2
      <4>2. f[x - 1] = IF x - 1 = 1 THEN ms[x - 1] ELSE f[(x - 1) - 1] \o ms[x - 1]
        BY <2>1, <4>1 DEF IsFlat
      <4>3. g[x - 1] = f[x - 1]
        BY <4>1, <4>2
      <4>4. g[x] = f[x - 1] \o ms[x]
        <5>1. CASE x = k + 1
          <6>1. g[x] = f[k] \o ms[x]
            BY <3>2, <5>1, Zenon
          <6>2. k \in Nat
            OBVIOUS
          <6> HIDE DEF g, T
          <6>3. x - 1 = k
            BY <5>1, <6>2
          <6>4. QED
            BY ONLY <6>1, <6>3, Zenon
        <5>2. CASE x # k + 1
          <6>1. x \in 1 .. k
            BY <5>2
          <6>2. QED
            BY <2>1, <3>2, <5>2, <6>1 DEF IsFlat
        <5>3. QED
          BY <5>1, <5>2
      <4> HIDE DEF g
      <4>5. QED
        BY <3>2, <4>3, <4>4
    <3>3. QED
      BY <3>1, <3>2
  <2>3. IsFlat(g, ms, k + 1)
    <3> DEFINE e == [x \in 1 .. k + 1 |-> IF x = 1 THEN ms[x] ELSE g[x - 1] \o ms[x]]
    <3>1. g = e
      BY <2>2
    <3> HIDE DEF g
    <3>2. QED
      BY <3>1 DEF IsFlat
  <2>4. QED
    BY <2>3
<1>3. Nat \subseteq T
  <2> HIDE DEF T
  <2>1. T \in SUBSET Nat
    BY DEF T
  <2>2. QED
    BY <1>1, <1>2, <2>1, Induction
<1>4. QED
  BY <1>3

LEMMA FlatIs ==
  ASSUME NEW ms, NEW n \in Nat \ {0}, Len(ms) = n
  PROVE  \E f : IsFlat(f, ms, n) /\ FlattenSeq(ms) = f[n]
<1> DEFINE f0 == CHOOSE f : f = [x \in 1 .. Len(ms) |->
                              IF x = 1 THEN ms[x] ELSE f[x - 1] \o ms[x]]
<1>1. FlattenSeq(ms) = f0[Len(ms)]
  BY DEF FlattenSeq
<1>2. IsFlat(f0, ms, n)
  <2>1. \E f : IsFlat(f, ms, n)
    BY FlatExists
  <2>2. f0 = CHOOSE f : IsFlat(f, ms, n)
    BY DEF IsFlat
  <2> HIDE DEF f0
  <2>3. QED
    BY <2>1, <2>2
<1> HIDE DEF f0
<1>3. QED
  BY <1>1, <1>2

LEMMA FlatPlaces ==
  ASSUME NEW tags \in Seq(Tag), NEW ms, NEW f, IsFlat(f, ms, Len(tags)),
         \A k \in 1 .. Len(tags) : ms[k] = Words(tags[k])
  PROVE  \A k \in 1 .. Len(tags) :
            /\ f[k] \in Seq(Int) /\ Len(f[k]) = Offset(tags, k + 1)
            /\ \A j \in 1 .. k : \A x \in 1 .. SizeOf(tags[j]) :
                  f[k][Offset(tags, j) + x] = Words(tags[j])[x]
<1> DEFINE n == Len(tags)
           P(k) == /\ f[k] \in Seq(Int) /\ Len(f[k]) = Offset(tags, k + 1)
                   /\ \A j \in 1 .. k : \A x \in 1 .. SizeOf(tags[j]) :
                         f[k][Offset(tags, j) + x] = Words(tags[j])[x]
           T == {k \in Nat : k < n => P(k + 1)}
<1>1. n \in Nat /\ \A k \in 1 .. n : tags[k] \in Tag
  BY TagsOf
<1>2. ASSUME NEW k \in 1 .. n
      PROVE  /\ Words(tags[k]) \in Seq(Int)
             /\ Len(Words(tags[k])) = SizeOf(tags[k]) /\ SizeOf(tags[k]) \in Nat
             /\ Offset(tags, k) \in Nat /\ Offset(tags, k + 1) \in Nat
             /\ Offset(tags, k + 1) = Offset(tags, k) + SizeOf(tags[k])
             /\ f[k] = IF k = 1 THEN Words(tags[k]) ELSE f[k - 1] \o Words(tags[k])
  <2>1. tags[k] \in Tag /\ k \in 1 .. n + 1 /\ k + 1 \in 1 .. n + 1
    BY <1>1
  <2>2. f[k] = IF k = 1 THEN ms[k] ELSE f[k - 1] \o ms[k]
    BY DEF IsFlat
  <2>3. QED
    BY <2>1, <2>2, WordsOf, OffsetIs, OffsetsGrow
<1>3. 0 \in T
  <2> SUFFICES ASSUME 0 < n PROVE P(1)
    OBVIOUS
  <2>1. 1 \in 1 .. n
    BY <1>1
  <2>2. f[1] = Words(tags[1]) /\ Offset(tags, 1) = 0 /\ Offset(tags, 1 + 1) = SizeOf(tags[1])
    BY <1>2, <2>1, OffsetIs
  <2>3. ASSUME NEW j \in 1 .. 1, NEW x \in 1 .. SizeOf(tags[j])
        PROVE  f[1][Offset(tags, j) + x] = Words(tags[j])[x]
    <3>1. j = 1 /\ x \in Int
      BY <1>2, <2>1
    <3>2. Offset(tags, j) + x = x
      BY <2>2, <3>1
    <3>3. QED
      BY <2>2, <3>1, <3>2
  <2>4. QED
    BY <1>2, <2>1, <2>2, <2>3
<1>4. ASSUME NEW k \in T PROVE k + 1 \in T
  <2> SUFFICES ASSUME k + 1 < n PROVE P((k + 1) + 1)
    OBVIOUS
  <2> DEFINE c == k + 1
             s == f[c]
             u == Words(tags[c + 1])
  <2>1. P(c) /\ c \in 1 .. n /\ c + 1 \in 1 .. n /\ (c + 1) - 1 = c /\ c + 1 # 1
    BY <1>1
  <2> HIDE DEF T
  <2>2. /\ f[c + 1] = s \o u
        /\ s \in Seq(Int) /\ Len(s) = Offset(tags, c + 1)
        /\ u \in Seq(Int) /\ Len(u) = SizeOf(tags[c + 1])
        /\ Offset(tags, (c + 1) + 1) = Offset(tags, c + 1) + SizeOf(tags[c + 1])
        /\ Offset(tags, c + 1) \in Nat /\ SizeOf(tags[c + 1]) \in Nat
    <3> HIDE DEF c
    <3>1. QED
      BY <1>2, <2>1
  <2>3. \A j \in 1 .. c : \A x \in 1 .. SizeOf(tags[j]) :
           s[Offset(tags, j) + x] = Words(tags[j])[x]
    BY <2>1
  <2> HIDE DEF s, c
  <2>4. /\ s \o u \in Seq(Int) /\ Len(s \o u) = Len(s) + Len(u)
        /\ \A x \in 1 .. Len(s) + Len(u) :
              (s \o u)[x] = IF x \leq Len(s) THEN s[x] ELSE u[x - Len(s)]
    <3> HIDE DEF u
    <3>1. QED
      BY ONLY <2>2, ConcatProperties, Zenon
  <2>5. ASSUME NEW j \in 1 .. c + 1, NEW x \in 1 .. SizeOf(tags[j])
        PROVE  (s \o u)[Offset(tags, j) + x] = Words(tags[j])[x]
    <3>1. CASE j = c + 1
      <4>1. /\ Offset(tags, j) + x \in 1 .. Len(s) + Len(u)
            /\ ~(Offset(tags, j) + x \leq Len(s))
            /\ (Offset(tags, j) + x) - Len(s) = x
        BY <2>2, <3>1
      <4>2. QED
        BY <2>4, <3>1, <4>1
    <3>2. CASE j # c + 1
      <4>1. j \in 1 .. c /\ j \in 1 .. (c + 1) - 1 /\ c + 1 \in 1 .. n + 1
        BY <2>1, <3>2
      <4>2. /\ Offset(tags, j) \in Nat
            /\ Offset(tags, j) + SizeOf(tags[j]) \leq Offset(tags, c + 1)
        BY <4>1, OffsetsGrow
      <4>3. SizeOf(tags[j]) \in Nat /\ x \in Nat /\ x \geq 1 /\ x \leq SizeOf(tags[j])
        BY <1>2, <2>1, <4>1
      <4>4. /\ Offset(tags, j) + x \in 1 .. Len(s) + Len(u)
            /\ Offset(tags, j) + x \leq Len(s)
        <5> DEFINE o == Offset(tags, j)
                   a == SizeOf(tags[j])
                   l == Len(s)
                   m == Len(u)
        <5>1. /\ o \in Nat /\ a \in Nat /\ l \in Nat /\ m \in Nat /\ x \in Nat
              /\ o + a \leq l /\ 1 \leq x /\ x \leq a
          BY <2>2, <4>2, <4>3
        <5> HIDE DEF o, a, l, m
        <5>2. o + x \in 1 .. l + m /\ o + x \leq l
          BY ONLY <5>1
        <5>3. QED
          BY <5>2 DEF o, l, m
      <4>5. QED
        BY <2>3, <2>4, <4>1, <4>4
    <3>3. QED
      BY <3>1, <3>2
  <2>6. P(c + 1)
    <3> HIDE DEF u
    <3>1. QED
      BY <2>2, <2>4, <2>5
  <2>7. QED
    BY <2>6 DEF c
<1>5. Nat \subseteq T
  <2> HIDE DEF T
  <2>1. T \in SUBSET Nat
    BY DEF T
  <2>2. QED
    BY <1>3, <1>4, <2>1, Induction
<1>6. ASSUME NEW k \in 1 .. n PROVE P(k)
  <2>1. k - 1 \in Nat /\ k - 1 < n /\ (k - 1) + 1 = k
    BY <1>1
  <2>2. k - 1 \in T
    BY <1>5, <2>1
  <2>3. P((k - 1) + 1)
    BY <2>1, <2>2
  <2>4. QED
    BY <2>1, <2>3
<1>7. QED
  BY <1>6

-----------------------------------------------------------------------------
(* A message in which the tags before the k-th have been answered.         *)
Request(w, t, o) ==
    /\ w[o + 1] = t.id /\ w[o + 2] = t.size /\ w[o + 3] = t.code
    /\ \A x \in 1 .. Len(t.value) : w[o + (3 + x)] = t.value[x]

Reply(w, t, o) ==
    /\ w[o + 1] = t.id /\ w[o + 2] = t.size /\ w[o + 3] = Answered32
    /\ \A x \in 1 .. Len(t.value) :
          w[o + (3 + x)] = Answer(t.id, w[o + 4], x)

Settled(w, t, o) == Reply(w, t, o) \/ (t.id = Refusable /\ Request(w, t, o))

End(tags) == Offset(tags, Len(tags) + 1)

UpTo(w, tags, k) ==
    /\ w \in Seq(Int) /\ Len(w) = tags_size(tags) \div 4
    /\ \A j \in 1 .. Len(tags) :
          IF j < k THEN Settled(w, tags[j], Offset(tags, j))
                   ELSE Request(w, tags[j], Offset(tags, j))
    /\ \A x \in End(tags) + 1 .. Len(w) : w[x] = 0

(* The tags a message can carry: as many words as size says, one at least, *)
(* and a sum after which a word is left for the end tag.                   *)
Readable(tags) ==
    /\ tags \in Seq(Tag) /\ Len(tags) \in Nat \ {0}
    /\ \A k \in 1 .. Len(tags) : /\ tags[k].size = 4 * Len(tags[k].value)
                                 /\ Len(tags[k].value) \in Nat \ {0}
    /\ End(tags) % 4 # 2

(* The message is as long as its tags or longer, and longer when they are  *)
(* Readable.                                                               *)
LEMMA SizeIs ==
  ASSUME NEW tags \in Seq(Tag)
  PROVE  /\ End(tags) \in Nat /\ tags_size(tags) \div 4 \in Nat
         /\ tags_size(tags) \div 4 \geq End(tags)
         /\ End(tags) % 4 # 2 => tags_size(tags) \div 4 > End(tags)
<1> DEFINE e == End(tags)
<1>1. e \in Nat /\ total_tag_size(tags) = 4 * e
  <2>1. Len(tags) + 1 \in 1 .. Len(tags) + 1
    BY TagsOf
  <2>2. QED
    BY <2>1, OffsetIs, OffsetsGrow DEF End
<1>2. tags_size(tags) = ((8 + 4 * e + 15) \div 16) * 16 - 8
  <2>1. /\ 2 * 4 + total_tag_size(tags) + 16 - 1 = 8 + 4 * e + 15
    <3> HIDE DEF e
    <3>1. QED
      BY <1>1
  <2> HIDE DEF e
  <2>2. QED
    BY <2>1 DEF tags_size, align_up
<1> HIDE DEF e
<1>3. (8 + 4 * e + 15) \div 16 = (e + 5) \div 4
  BY <1>1
<1> DEFINE q == (e + 5) \div 4
<1>4. q \in Nat /\ q \geq 1 /\ 4 * q \leq e + 5 /\ e + 5 < 4 * q + 4
  BY <1>1
<1>5. (e % 4) \in 0 .. 3 /\ e = 4 * (e \div 4) + (e % 4) /\ e \div 4 \in Nat
  BY <1>1
<1>6. tags_size(tags) = q * 16 - 8
  BY <1>2, <1>3
<1> HIDE DEF q
<1>7. tags_size(tags) \div 4 = 4 * q - 2
  BY <1>4, <1>6
<1>8. 4 * q - 2 \in Nat /\ 4 * q - 2 \geq e /\ (e % 4 # 2 => 4 * q - 2 > e)
  BY <1>1, <1>4, <1>5
<1>9. QED
  BY <1>1, <1>7, <1>8 DEF e

(* The constructor lays every tag out at the offset get_tag finds it at.   *)
LEMMA LaidOut ==
  ASSUME NEW tags, Readable(tags)
  PROVE  UpTo(property_message(tags), tags, 1)
<1> DEFINE n == Len(tags)
           ms == [k \in DOMAIN tags |->
                    <<tags[k].id, tags[k].size, tags[k].code>> \o tags[k].value]
           fill == FlattenSeq(ms)
           z == tags_size(tags) \div 4
           w == property_message(tags)
<1>1. /\ tags \in Seq(Tag) /\ n \in Nat \ {0} /\ DOMAIN tags = 1 .. n
      /\ z \in Nat /\ End(tags) \in Nat /\ z \geq End(tags)
  BY SizeIs, LenProperties DEF Readable
<1>2. Len(ms) = n /\ \A k \in 1 .. n : ms[k] = Words(tags[k])
  <2>1. \A k \in 1 .. n : ms[k] = Words(tags[k])
    BY <1>1 DEF Words
  <2>2. DOMAIN ms = 1 .. n
    BY <1>1
  <2>3. \A k \in 1 .. n : ms[k] \in Seq(Int)
    <3>1. \A k \in 1 .. n : tags[k] \in Tag
      BY <1>1, TagsOf
    <3> HIDE DEF ms
    <3>2. QED
      BY <2>1, <3>1, WordsOf
  <2>4. ms \in [1 .. n -> Seq(Int)]
    <3>1. ms = [k \in 1 .. n |-> ms[k]]
      BY <1>1
    <3> HIDE DEF ms
    <3>2. QED
      BY <2>3, <3>1
  <2> HIDE DEF ms
  <2>5. Len(ms) = n
    BY <1>1, <2>4, SeqOfLength
  <2>6. QED
    BY <2>1, <2>5
<1>3. w = [x \in 1 .. z |-> IF x \leq Len(fill) THEN fill[x] ELSE 0]
  BY DEF property_message
<1> HIDE DEF w, z, ms
<1>4. PICK f : IsFlat(f, ms, n) /\ fill = f[n]
  BY <1>1, <1>2, FlatIs
<1>5. /\ fill \in Seq(Int) /\ Len(fill) = End(tags)
      /\ \A j \in 1 .. n : \A x \in 1 .. SizeOf(tags[j]) :
            fill[Offset(tags, j) + x] = Words(tags[j])[x]
  <2>1. n \in 1 .. n
    BY <1>1
  <2>2. /\ f[n] \in Seq(Int) /\ Len(f[n]) = Offset(tags, n + 1)
        /\ \A j \in 1 .. n : \A x \in 1 .. SizeOf(tags[j]) :
              f[n][Offset(tags, j) + x] = Words(tags[j])[x]
    BY <1>1, <1>2, <1>4, <2>1, FlatPlaces
  <2>3. QED
    BY <1>4, <2>2 DEF End
<1> HIDE DEF fill
<1>6. w \in Seq(Int) /\ Len(w) = z
  <2>1. w \in [1 .. z -> Int]
    <3>1. \A x \in 1 .. z : x \leq Len(fill) => fill[x] \in Int
      BY <1>1, <1>5
    <3>2. QED
      BY <1>3, <3>1
  <2>2. QED
    BY <1>1, <2>1, SeqOfLength
<1>7. ASSUME NEW j \in 1 .. n, NEW x \in 1 .. SizeOf(tags[j])
      PROVE  w[Offset(tags, j) + x] = Words(tags[j])[x]
  <2> DEFINE o == Offset(tags, j)
             a == SizeOf(tags[j])
             e == End(tags)
  <2>1. o \in Nat /\ a \in Nat /\ e \in Nat /\ o + a \leq e /\ e \leq z /\ z \in Nat
    <3>1. j \in 1 .. (n + 1) - 1 /\ n + 1 \in 1 .. n + 1
      BY <1>1
    <3>2. QED
      BY <1>1, <3>1, OffsetsGrow, TagsOf DEF End
  <2>2. x \in 1 .. a
    OBVIOUS
  <2> HIDE DEF o, a, e
  <2>3. o + x \in 1 .. z /\ o + x \leq e
    BY <2>1, <2>2
  <2>4. w[o + x] = fill[o + x]
    BY <1>3, <1>5, <2>3 DEF e
  <2>5. QED
    BY <1>5, <2>4 DEF o
<1>8. ASSUME NEW j \in 1 .. n PROVE Request(w, tags[j], Offset(tags, j))
  <2> DEFINE t == tags[j]
  <2>1. t \in Tag /\ Len(t.value) \in Nat
    BY <1>1 DEF Readable
  <2>2. SizeOf(t) = 3 + Len(t.value)
    BY DEF SizeOf
  <2>3. /\ 1 \in 1 .. SizeOf(t) /\ 2 \in 1 .. SizeOf(t) /\ 3 \in 1 .. SizeOf(t)
        /\ \A x \in 1 .. Len(t.value) : 3 + x \in 1 .. SizeOf(t)
    BY <2>1, <2>2
  <2>4. QED
    BY <1>7, <2>1, <2>3, WordsOf DEF Request
<1>9. ASSUME NEW x \in End(tags) + 1 .. Len(w) PROVE w[x] = 0
  BY <1>1, <1>3, <1>5, <1>6
<1>10. \A j \in 1 .. n : ~(j < 1)
  BY <1>1
<1>11. QED
  BY <1>6, <1>8, <1>9, <1>10 DEF UpTo, w, z

(* A change of other words leaves a tag as it is.                          *)
LEMMA SameWords ==
  ASSUME NEW t, Len(t.value) \in Nat \ {0}, NEW o \in Nat, NEW w, NEW u,
         \A x \in 1 .. SizeOf(t) : u[o + x] = w[o + x]
  PROVE  /\ Request(w, t, o) => Request(u, t, o)
         /\ Settled(w, t, o) => Settled(u, t, o)
<1>1. /\ 1 \in 1 .. SizeOf(t) /\ 2 \in 1 .. SizeOf(t) /\ 3 \in 1 .. SizeOf(t)
      /\ 4 \in 1 .. SizeOf(t)
      /\ \A x \in 1 .. Len(t.value) : 3 + x \in 1 .. SizeOf(t)
  BY DEF SizeOf
<1>2. /\ u[o + 1] = w[o + 1] /\ u[o + 2] = w[o + 2] /\ u[o + 3] = w[o + 3]
      /\ u[o + 4] = w[o + 4]
      /\ \A x \in 1 .. Len(t.value) : u[o + (3 + x)] = w[o + (3 + x)]
  BY <1>1
<1>3. Request(w, t, o) => Request(u, t, o)
  BY <1>2 DEF Request
<1>4. Reply(w, t, o) => Reply(u, t, o)
  BY <1>2 DEF Reply
<1>5. QED
  BY <1>3, <1>4 DEF Settled

(* Where a tag is.                                                         *)
LEMMA Place ==
  ASSUME NEW tags, Readable(tags), NEW w, NEW k \in 1 .. Len(tags) + 1,
         UpTo(w, tags, k)
  PROVE  /\ \A j \in 1 .. Len(tags) :
               /\ tags[j] \in Tag /\ tags[j].size = 4 * Len(tags[j].value)
               /\ Len(tags[j].value) \in Nat \ {0}
               /\ SizeOf(tags[j]) = 3 + Len(tags[j].value)
               /\ Offset(tags, j) \in Nat
               /\ Offset(tags, j + 1) = Offset(tags, j) + SizeOf(tags[j])
               /\ Offset(tags, j) + SizeOf(tags[j]) \leq End(tags)
         /\ End(tags) \in Nat /\ Len(w) \in Nat /\ End(tags) < Len(w)
<1>1. tags \in Seq(Tag) /\ Len(tags) \in Nat /\ Len(tags) + 1 \in 1 .. Len(tags) + 1
  BY DEF Readable
<1>2. End(tags) \in Nat /\ Len(w) \in Nat /\ End(tags) < Len(w)
  BY <1>1, SizeIs DEF Readable, UpTo
<1>3. ASSUME NEW j \in 1 .. Len(tags)
      PROVE  /\ tags[j] \in Tag /\ Offset(tags, j) \in Nat
             /\ Offset(tags, j + 1) = Offset(tags, j) + SizeOf(tags[j])
             /\ Offset(tags, j) + SizeOf(tags[j]) \leq End(tags)
  <2>1. j \in 1 .. (Len(tags) + 1) - 1
    BY <1>1
  <2>2. QED
    BY <1>1, <2>1, TagsOf, OffsetIs, OffsetsGrow DEF End
<1>4. QED
  BY <1>2, <1>3 DEF Readable, SizeOf

(* One step of the GPU over a message: where it finds the next tag, what   *)
(* it writes and where it goes on.                                         *)
Written(w, p) ==
    [y \in DOMAIN w |->
        IF y = p + 2 THEN Answered32
        ELSE IF y \in p + 3 .. p + 2 + (w[p + 1] \div 4)
             THEN Answer(w[p], w[p + 3], y - p - 2)
             ELSE w[y]]

LEMMA FoundAt ==
  ASSUME NEW tags, Readable(tags), NEW w, NEW k \in 1 .. Len(tags),
         UpTo(w, tags, k)
  PROVE  LET p == Offset(tags, k) + 1
         IN  /\ p + 2 \leq Len(w) /\ w[p] = tags[k].id /\ w[p] > 0
             /\ w[p + 1] = 4 * Len(tags[k].value) /\ w[p + 1] \geq 0
             /\ p + 3 + (w[p + 1] \div 4) = Offset(tags, k + 1) + 1
<1> DEFINE o == Offset(tags, k)
           t == tags[k]
           l == Len(t.value)
<1>1. /\ t \in Tag /\ t.size = 4 * l /\ l \in Nat \ {0} /\ o \in Nat
      /\ Offset(tags, k + 1) = o + (3 + l)
      /\ o + (3 + l) < Len(w) /\ Len(w) \in Nat
  <2>1. k \in 1 .. Len(tags) + 1
    BY DEF Readable
  <2>2. QED
    BY <2>1, Place
<1>2. Request(w, t, o)
  BY DEF UpTo
<1>3. w[o + 1] = t.id /\ w[o + 2] = 4 * l /\ t.id \in Nat \ {0}
  BY <1>1, <1>2 DEF Request, Tag
<1> HIDE DEF o, t, l
<1>4. (o + 1) + 1 = o + 2 /\ (4 * l) \div 4 = l
  BY <1>1
<1>5. /\ (o + 1) + 2 \leq Len(w) /\ w[o + 1] > 0 /\ 4 * l \geq 0
      /\ (o + 1) + 3 + l = (o + (3 + l)) + 1
  BY <1>1, <1>3
<1>6. QED
  BY <1>1, <1>3, <1>4, <1>5 DEF o, t, l

LEMMA Refused ==
  ASSUME NEW tags, Readable(tags), NEW w, NEW k \in 1 .. Len(tags),
         UpTo(w, tags, k), tags[k].id = Refusable
  PROVE  UpTo(w, tags, k + 1)
<1>1. ASSUME NEW j \in 1 .. Len(tags)
      PROVE  IF j < k + 1 THEN Settled(w, tags[j], Offset(tags, j))
                          ELSE Request(w, tags[j], Offset(tags, j))
  <2>1. CASE j = k
    BY <2>1 DEF UpTo, Settled
  <2>2. CASE j # k
    <3>1. j < k + 1 <=> j < k
      BY <2>2
    <3>2. QED
      BY <3>1 DEF UpTo
  <2>3. QED
    BY <2>1, <2>2
<1>2. QED
  BY <1>1 DEF UpTo

LEMMA AnswerStays ==
  \A id, r, x \in Int : Answer(id, Answer(id, r, 1), x) = Answer(id, r, x)
  BY DEF Answer, command, Get, emmc

LEMMA Replied1 ==
  ASSUME NEW tags, Readable(tags), NEW w, NEW k \in 1 .. Len(tags),
         UpTo(w, tags, k)
  PROVE  UpTo(Written(w, Offset(tags, k) + 1), tags, k + 1)
<1> DEFINE o == Offset(tags, k)
           t == tags[k]
           l == Len(t.value)
           u == Written(w, o + 1)
<1>1. /\ t \in Tag /\ l \in Nat \ {0} /\ o \in Nat /\ SizeOf(t) = 3 + l
      /\ Offset(tags, k + 1) = o + (3 + l)
      /\ o + (3 + l) \leq End(tags) /\ End(tags) \in Nat
      /\ End(tags) < Len(w) /\ Len(w) \in Nat
      /\ w \in Seq(Int) /\ DOMAIN w = 1 .. Len(w)
      /\ Len(tags) \in Nat /\ tags \in Seq(Tag)
  <2>1. k \in 1 .. Len(tags) + 1 /\ Len(tags) \in Nat /\ tags \in Seq(Tag)
    BY DEF Readable
  <2>2. w \in Seq(Int) /\ DOMAIN w = 1 .. Len(w)
    BY LenProperties DEF UpTo
  <2>3. QED
    BY <2>1, <2>2, Place
<1>2. w[o + 1] = t.id /\ w[(o + 1) + 1] \div 4 = l
  <2>1. w[(o + 1) + 1] = 4 * l /\ w[o + 1] = t.id
    BY FoundAt
  <2> HIDE DEF l
  <2>2. (4 * l) \div 4 = l
    BY <1>1
  <2>3. QED
    BY <2>1, <2>2
<1> HIDE DEF o, t, l
<1>3. u = [y \in 1 .. Len(w) |->
             IF y = o + 3 THEN Answered32
             ELSE IF y \in o + 4 .. o + (3 + l)
                  THEN Answer(t.id, w[o + 4], y - (o + 3)) ELSE w[y]]
  <2>1. /\ (o + 1) + 2 = o + 3 /\ (o + 1) + 3 = o + 4
        /\ (o + 1) + 2 + l = o + (3 + l)
        /\ \A y \in 1 .. Len(w) : y - (o + 1) - 2 = y - (o + 3)
    BY <1>1
  <2>2. QED
    BY <1>1, <1>2, <2>1 DEF Written
<1> HIDE DEF u
<1>4. \A r, x \in Int : Answer(t.id, r, x) \in Int
  BY <1>1 DEF Answer, command, Get, emmc, Tag
<1>5. u \in Seq(Int) /\ Len(u) = Len(w)
  <2>1. \A y \in 1 .. Len(w) : w[y] \in Int
    BY <1>1
  <2>2. o + 4 \in 1 .. Len(w)
    BY <1>1
  <2>3. \A y \in 1 .. Len(w) : y - (o + 3) \in Int
    BY <1>1
  <2>4. ASSUME NEW y \in 1 .. Len(w) PROVE u[y] \in Int
    <3>1. w[o + 4] \in Int /\ w[y] \in Int /\ y - (o + 3) \in Int
      BY <2>1, <2>2, <2>3
    <3>2. Answer(t.id, w[o + 4], y - (o + 3)) \in Int
      BY <1>4, <3>1
    <3>3. Answered32 \in Int
      BY DEF Answered32
    <3>4. QED
      BY <1>3, <3>1, <3>2, <3>3
  <2>5. u \in [1 .. Len(w) -> Int]
    <3>1. DOMAIN u = 1 .. Len(w) /\ u = [y \in 1 .. Len(w) |-> u[y]]
      BY <1>3
    <3>2. QED
      BY <2>4, <3>1
  <2>6. QED
    BY <1>1, <2>5, SeqOfLength
<1>6. ASSUME NEW y \in 1 .. Len(w), y \leq o \/ y > o + (3 + l)
      PROVE  u[y] = w[y]
  <2>1. y # o + 3 /\ y \notin o + 4 .. o + (3 + l)
    BY <1>1, <1>6
  <2>2. QED
    BY <1>3, <2>1
<1>7. ASSUME NEW j \in 1 .. Len(tags), j # k
      PROVE  /\ Request(w, tags[j], Offset(tags, j))
                  => Request(u, tags[j], Offset(tags, j))
             /\ Settled(w, tags[j], Offset(tags, j))
                  => Settled(u, tags[j], Offset(tags, j))
  <2> DEFINE p == Offset(tags, j)
             a == SizeOf(tags[j])
  <2>1. /\ p \in Nat /\ a \in Nat /\ p + a \leq End(tags)
        /\ Len(tags[j].value) \in Nat \ {0}
    <3>1. k \in 1 .. Len(tags) + 1
      BY <1>1
    <3>2. QED
      BY <1>1, <3>1, Place, TagsOf
  <2>2. p + a \leq o \/ p \geq o + (3 + l)
    <3>1. CASE j < k
      <4>1. j \in 1 .. k - 1 /\ k \in 1 .. Len(tags) + 1
        BY <1>1, <3>1
      <4>2. QED
        BY <1>1, <4>1, OffsetsGrow DEF o
    <3>2. CASE k < j
      <4>1. k \in 1 .. j - 1 /\ j \in 1 .. Len(tags) + 1
        BY <1>1, <3>2
      <4>2. o + SizeOf(t) \leq p
        BY <1>1, <4>1, OffsetsGrow DEF o, t
      <4> HIDE DEF p
      <4>3. QED
        BY <1>1, <2>1, <4>2
    <3>3. QED
      BY <1>7, <3>1, <3>2
  <2>3. \A x \in 1 .. a : u[p + x] = w[p + x]
    <3> HIDE DEF p, a
    <3>1. ASSUME NEW x \in 1 .. a
          PROVE  p + x \in 1 .. Len(w) /\ (p + x \leq o \/ p + x > o + (3 + l))
      BY <1>1, <2>1, <2>2
    <3>2. QED
      BY <1>6, <3>1
  <2>4. QED
    BY <2>1, <2>3, SameWords
<1>8. Reply(u, t, o)
  <2>1. Request(w, t, o)
    BY DEF UpTo, o, t
  <2>2. u[o + 1] = w[o + 1] /\ u[o + 2] = w[o + 2] /\ u[o + 3] = Answered32
    <3>1. /\ o + 1 \in 1 .. Len(w) /\ o + 2 \in 1 .. Len(w) /\ o + 3 \in 1 .. Len(w)
          /\ o + 1 # o + 3 /\ o + 2 # o + 3
          /\ o + 1 \notin o + 4 .. o + (3 + l) /\ o + 2 \notin o + 4 .. o + (3 + l)
      BY <1>1
    <3>2. QED
      BY <1>3, <3>1
  <2>3. ASSUME NEW x \in 1 .. l
        PROVE  u[o + (3 + x)] = Answer(t.id, w[o + 4], x)
    <3>1. /\ o + (3 + x) \in 1 .. Len(w) /\ o + (3 + x) # o + 3
          /\ o + (3 + x) \in o + 4 .. o + (3 + l)
          /\ (o + (3 + x)) - (o + 3) = x
      BY <1>1
    <3>2. QED
      BY <1>3, <3>1
  <2>4. u[o + 4] = Answer(t.id, w[o + 4], 1)
    <3>1. 1 \in 1 .. l /\ o + (3 + 1) = o + 4
      BY <1>1
    <3>2. QED
      BY <2>3, <3>1
  <2>5. w[o + 4] \in Int /\ t.id \in Int /\ \A x \in 1 .. l : x \in Int
    <3>1. o + 4 \in 1 .. Len(w)
      BY <1>1
    <3>2. QED
      BY <1>1, <3>1 DEF Tag
  <2>6. \A x \in 1 .. l : u[o + (3 + x)] = Answer(t.id, u[o + 4], x)
    BY <2>3, <2>4, <2>5, AnswerStays
  <2>7. QED
    BY <2>1, <2>2, <2>6 DEF Reply, Request, l
<1>9. ASSUME NEW j \in 1 .. Len(tags)
      PROVE  IF j < k + 1 THEN Settled(u, tags[j], Offset(tags, j))
                          ELSE Request(u, tags[j], Offset(tags, j))
  <2>1. CASE j = k
    BY <1>8, <2>1 DEF Settled, o, t
  <2>2. CASE j # k
    <3>1. j < k + 1 <=> j < k
      BY <2>2
    <3>2. QED
      BY <1>7, <2>2, <3>1 DEF UpTo
  <2>3. QED
    BY <2>1, <2>2
<1>10. ASSUME NEW y \in End(tags) + 1 .. Len(u) PROVE u[y] = 0
  <2>1. y \in 1 .. Len(w) /\ y > o + (3 + l) /\ y \in End(tags) + 1 .. Len(w)
    BY <1>1, <1>5
  <2>2. w[y] = 0
    BY <2>1 DEF UpTo
  <2>3. QED
    BY <1>6, <2>1, <2>2
<1>11. QED
  BY <1>5, <1>9, <1>10 DEF UpTo, u, o

(* Behind the last tag it finds a zero.                                    *)
LEMMA EndsAt ==
  ASSUME NEW tags, Readable(tags), NEW w, UpTo(w, tags, Len(tags) + 1)
  PROVE  w[End(tags) + 1] = 0 /\ End(tags) + 1 \leq Len(w)
<1>1. Len(tags) + 1 \in 1 .. Len(tags) + 1
  BY DEF Readable
<1>2. End(tags) \in Nat /\ Len(w) \in Nat /\ End(tags) < Len(w)
  BY <1>1, Place
<1>3. End(tags) + 1 \in End(tags) + 1 .. Len(w)
  BY <1>2
<1>4. QED
  BY <1>2, <1>3 DEF UpTo

-----------------------------------------------------------------------------
(* The messages of the kernel.                                             *)
Messages == {"framebuffer", "board", "clock"}

Proper(t) == t \in Tag /\ t.size = 4 * Len(t.value) /\ Len(t.value) \in Nat \ {0}

LEMMA ProperTag ==
  ASSUME NEW id \in Nat \ {0}, NEW c \in Int, NEW v \in Seq(Int),
         NEW n \in Nat \ {0}, Len(v) = n
  PROVE  /\ Proper(tag(id, 4 * n, c, v)) /\ SizeOf(tag(id, 4 * n, c, v)) = 3 + n
         /\ Len(tag(id, 4 * n, c, v).value) = n
BY DEF tag, Tag, SizeOf, Proper

(* A tag with one word or two, whatever they are.                          *)
LEMMA Tuples ==
  \A a, b \in Int : /\ <<a>> \in Seq(Int) /\ Len(<<a>>) = 1
                    /\ <<a, b>> \in Seq(Int) /\ Len(<<a, b>>) = 2
OBVIOUS

OneWord(t) == Proper(t) /\ SizeOf(t) = 4

TwoWords(t) == Proper(t) /\ SizeOf(t) = 5 /\ Len(t.value) = 2

LEMMA ShortTag ==
  ASSUME NEW id \in Nat \ {0}, NEW c \in Int, NEW a \in Int
  PROVE  OneWord(tag(id, 4, c, <<a>>))
<1>1. <<a>> \in Seq(Int) /\ Len(<<a>>) = 1
  BY Tuples
<1>2. 1 \in Nat \ {0} /\ 4 * 1 = 4 /\ 3 + 1 = 4
  OBVIOUS
<1>3. Proper(tag(id, 4 * 1, c, <<a>>)) /\ SizeOf(tag(id, 4 * 1, c, <<a>>)) = 3 + 1
  BY ONLY <1>1, <1>2, id \in Nat \ {0}, c \in Int, ProperTag, Zenon
<1>4. QED
  BY ONLY <1>2, <1>3, Zenon DEF OneWord

LEMMA LongTag ==
  ASSUME NEW id \in Nat \ {0}, NEW c \in Int, NEW a \in Int, NEW b \in Int
  PROVE  TwoWords(tag(id, 8, c, <<a, b>>))
<1>1. <<a, b>> \in Seq(Int) /\ Len(<<a, b>>) = 2
  BY Tuples
<1>2. 2 \in Nat \ {0} /\ 4 * 2 = 8 /\ 3 + 2 = 5
  OBVIOUS
<1> DEFINE v == <<a, b>>
<1> HIDE DEF v
<1>3. /\ Proper(tag(id, 4 * 2, c, v)) /\ SizeOf(tag(id, 4 * 2, c, v)) = 3 + 2
      /\ Len(tag(id, 4 * 2, c, v).value) = 2
  <2>1. v \in Seq(Int) /\ Len(v) = 2
    BY <1>1 DEF v
  <2>2. QED
    BY <1>2, <2>1, ProperTag
<1>4. QED
  BY ONLY <1>2, <1>3, Zenon DEF TwoWords, v

LEMMA Commands ==
  \A dev \in {0, 1, 3, 4}, type \in {Get, Set}, cmd \in 1 .. 9 :
     command(dev, type, cmd) \in Nat \ {0}
BY DEF command, Get, Set

LEMMA FramebufferReadable == Readable(framebuffer_tags)
<1> DEFINE s == framebuffer_tags
<1>1. /\ s[1] = tag(command(4, Set, 3), 8, 0, <<1024, 768>>)
      /\ s[2] = tag(command(4, Set, 4), 8, 0, <<1024, 768>>)
      /\ s[3] = tag(command(4, Set, 9), 8, 0, <<0, 0>>)
      /\ s[4] = tag(command(4, Set, 5), 4, 0, <<32>>)
      /\ s[5] = tag(command(4, Set, 6), 4, 0, <<1>>)
      /\ s[6] = tag(command(4, Get, 1), 8, 0, <<4096, 0>>)
      /\ s[7] = tag(command(4, Get, 8), 4, 0, <<0>>)
  BY DEF framebuffer_tags
<1> HIDE DEF s
<1>2. /\ command(4, Set, 3) \in Nat \ {0} /\ command(4, Set, 4) \in Nat \ {0}
      /\ command(4, Set, 9) \in Nat \ {0} /\ command(4, Set, 5) \in Nat \ {0}
      /\ command(4, Set, 6) \in Nat \ {0} /\ command(4, Get, 1) \in Nat \ {0}
      /\ command(4, Get, 8) \in Nat \ {0}
  BY Commands
<1>3. TwoWords(s[1]) /\ TwoWords(s[2]) /\ TwoWords(s[3])
  BY <1>1, <1>2, LongTag
<1>4. /\ OneWord(s[4]) /\ OneWord(s[5]) /\ TwoWords(s[6]) /\ OneWord(s[7])
  BY ONLY <1>1, <1>2, ShortTag, LongTag
<1>5. Len(s) = 7 /\ DOMAIN s = 1 .. 7
  BY DEF s, framebuffer_tags
<1>6. \A k \in 1 .. 7 : Proper(s[k])
  BY <1>3, <1>4 DEF OneWord, TwoWords
<1>7. s \in Seq(Tag)
  <2>1. s = [k \in 1 .. 7 |-> s[k]]
    BY <1>5 DEF s, framebuffer_tags
  <2>2. s \in [1 .. 7 -> Tag]
    BY <1>6, <2>1 DEF Proper
  <2>3. QED
    BY <2>2, SeqOfLength
<1>8. End(s) = 32
  <2>1. /\ Offset(s, 1) = 0
        /\ \A k \in 1 .. 7 : Offset(s, k + 1) = Offset(s, k) + SizeOf(s[k])
    BY <1>5, <1>7, OffsetIs
  <2>2. /\ Offset(s, 2) = 0 + 5 /\ Offset(s, 3) = 5 + 5 /\ Offset(s, 4) = 10 + 5
        /\ Offset(s, 5) = 15 + 4 /\ Offset(s, 6) = 19 + 4
        /\ Offset(s, 7) = 23 + 5 /\ Offset(s, 8) = 28 + 4
    BY <1>3, <1>4, <2>1 DEF OneWord, TwoWords
  <2>3. QED
    BY <1>5, <2>2 DEF End
<1>9. QED
  BY <1>5, <1>6, <1>7, <1>8 DEF Readable, Proper, s

LEMMA BoardReadable == Readable(board_tags)
<1> DEFINE s == board_tags
<1>0. /\ s[1] = tag(command(1, Get, 4), 8, 0, <<0, 0>>)
      /\ s[2] = tag(command(0, Get, 1), 4, 0, <<0>>)
      /\ s[3] = tag(command(1, Get, 1), 4, 0, <<0>>)
      /\ s[4] = tag(command(1, Get, 2), 4, 0, <<0>>)
      /\ s[5] = tag(command(1, Get, 5), 8, 0, <<0, 0>>)
      /\ s[6] = tag(command(1, Get, 6), 8, 0, <<0, 0>>)
  BY DEF board_tags
<1> HIDE DEF s
<1>1. /\ command(1, Get, 4) \in Nat \ {0} /\ command(0, Get, 1) \in Nat \ {0}
      /\ command(1, Get, 1) \in Nat \ {0} /\ command(1, Get, 2) \in Nat \ {0}
      /\ command(1, Get, 5) \in Nat \ {0} /\ command(1, Get, 6) \in Nat \ {0}
  BY Commands
<1>2. /\ TwoWords(s[1]) /\ OneWord(s[2]) /\ OneWord(s[3]) /\ OneWord(s[4])
      /\ TwoWords(s[5]) /\ TwoWords(s[6])
  BY ONLY <1>0, <1>1, ShortTag, LongTag
<1>3. Len(s) = 6 /\ DOMAIN s = 1 .. 6
  BY DEF s, board_tags
<1>4. \A k \in 1 .. 6 : Proper(s[k])
  BY <1>2 DEF OneWord, TwoWords
<1>5. s \in Seq(Tag)
  <2>1. s = [k \in 1 .. 6 |-> s[k]]
    BY <1>3 DEF s, board_tags
  <2>2. s \in [1 .. 6 -> Tag]
    BY <1>4, <2>1 DEF Proper
  <2>3. QED
    BY <2>2, SeqOfLength
<1>6. End(s) = 27
  <2>1. /\ Offset(s, 1) = 0
        /\ \A k \in 1 .. 6 : Offset(s, k + 1) = Offset(s, k) + SizeOf(s[k])
    BY <1>3, <1>5, OffsetIs
  <2>2. /\ Offset(s, 2) = 0 + 5 /\ Offset(s, 3) = 5 + 4 /\ Offset(s, 4) = 9 + 4
        /\ Offset(s, 5) = 13 + 4 /\ Offset(s, 6) = 17 + 5 /\ Offset(s, 7) = 22 + 5
    BY <1>2, <2>1 DEF OneWord, TwoWords
  <2>3. QED
    BY <1>3, <2>2 DEF End
<1>7. QED
  BY <1>3, <1>4, <1>5, <1>6 DEF Readable, Proper, s

RateId == command(3, Get, 2)

LEMMA ClockReadable ==
  ASSUME NEW junk \in Nat
  PROVE  /\ Readable(clock_tags(junk)) /\ Len(clock_tags(junk)) = 1
         /\ Offset(clock_tags(junk), 1) = 0 /\ End(clock_tags(junk)) = 5
         /\ Len(clock_tags(junk)[1].value) = 2
         /\ clock_tags(junk)[1].id = RateId /\ clock_tags(junk)[1].size = 8
         /\ clock_tags(junk)[1].code = 4
<1> DEFINE s == clock_tags(junk)
<1>1. Proper(s[1]) /\ SizeOf(s[1]) = 5 /\ Len(s[1].value) = 2
  <2>1. s[1] = tag(command(3, Get, 2), 8, 4, <<emmc + 256 * junk, 0>>)
    BY DEF clock_tags
  <2>2. emmc + 256 * junk \in Int
    BY DEF emmc
  <2>3. command(3, Get, 2) \in Nat \ {0}
    BY Commands
  <2> HIDE DEF s
  <2>4. TwoWords(s[1])
    BY ONLY <2>1, <2>2, <2>3, LongTag
  <2>5. QED
    BY <2>4 DEF TwoWords
<1>2. Len(s) = 1 /\ DOMAIN s = 1 .. 1
  BY DEF clock_tags
<1>3. s[1].id = RateId /\ s[1].size = 8 /\ s[1].code = 4
  BY DEF clock_tags, tag, RateId
<1> HIDE DEF s
<1>4. \A k \in 1 .. 1 : Proper(s[k])
  BY <1>1
<1>5. s \in Seq(Tag)
  <2>1. s = [k \in 1 .. 1 |-> s[k]]
    BY <1>2 DEF s, clock_tags
  <2>2. s \in [1 .. 1 -> Tag]
    BY <1>4, <2>1 DEF Proper
  <2>3. QED
    BY <2>2, SeqOfLength
<1>6. Offset(s, 1) = 0 /\ End(s) = 5
  <2>1. Offset(s, 1) = 0 /\ Offset(s, 1 + 1) = Offset(s, 1) + SizeOf(s[1])
    BY <1>2, <1>5, OffsetIs
  <2>2. QED
    BY <1>1, <1>2, <2>1 DEF End
<1>7. Readable(s)
  BY <1>2, <1>4, <1>5, <1>6 DEF Readable, Proper
<1>8. QED
  BY <1>1, <1>2, <1>3, <1>6, <1>7 DEF s

LEMMA TagsAre ==
  ASSUME NEW junk
  PROVE  /\ Tags("framebuffer", junk) = framebuffer_tags
         /\ Tags("board", junk) = board_tags
         /\ Tags("clock", junk) = clock_tags(junk)
BY DEF Tags

LEMMA JunkIs == 0 \in Junk /\ \A junk \in Junk : junk \in Nat
<1>1. 2^24 \in Int
  OBVIOUS
<1>2. 0 \in Junk
  BY PropertyCallAssumption, Zenon DEF PropertyCallAssumption
<1>3. Junk \subseteq 0 .. 2^24 - 1
  BY PropertyCallAssumption, Zenon DEF PropertyCallAssumption
<1> DEFINE top == 2^24
<1>4. \A junk \in Junk : junk \in 0 .. top - 1
  BY <1>3
<1>5. top \in Int
  BY <1>1
<1> HIDE DEF top
<1>6. QED
  BY <1>2, <1>4, <1>5

LEMMA ReadableTags ==
  ASSUME NEW m \in Messages, NEW junk \in Junk
  PROVE  Readable(Tags(m, junk))
<1>1. junk \in Nat
  BY JunkIs
<1>2. QED
  BY <1>1, FramebufferReadable, BoardReadable, ClockReadable, TagsAre DEF Messages

(* The padding of the clock's tag is no part of its shape.                 *)
Behind(m, junk) == m # "clock" => junk = 0

LEMMA Shape ==
  ASSUME NEW m \in Messages, NEW junk \in Junk, Behind(m, junk)
  PROVE  LET tags == Tags(m, junk)
             t0   == Tags(m, 0)
         IN  /\ DOMAIN t0 = 1 .. Len(t0) /\ Len(t0) \in Nat \ {0}
             /\ Len(tags) = Len(t0) /\ End(tags) = End(t0)
             /\ \A k \in 1 .. Len(t0) :
                   /\ Offset(tags, k) = Offset(t0, k)
                   /\ tags[k].id = t0[k].id /\ tags[k].size = t0[k].size
                   /\ t0[k].value \in Seq(Int)
                   /\ Len(tags[k].value) = Len(t0[k].value)
                   /\ t0[k].size = 4 * Len(t0[k].value)
                   /\ Len(t0[k].value) \in Nat \ {0}
                   /\ t0[k].id = Refusable => tags = t0
<1>1. 0 \in Junk /\ 0 \in Nat /\ junk \in Nat
  BY JunkIs
<1>2. /\ Readable(Tags(m, 0)) /\ Len(Tags(m, 0)) \in Nat \ {0}
      /\ DOMAIN Tags(m, 0) = 1 .. Len(Tags(m, 0))
  <2>1. Readable(Tags(m, 0))
    BY <1>1, ReadableTags
  <2>2. QED
    BY <2>1, LenProperties DEF Readable
<1>3. \A k \in 1 .. Len(Tags(m, 0)) :
         /\ Tags(m, 0)[k].value \in Seq(Int)
         /\ Tags(m, 0)[k].size = 4 * Len(Tags(m, 0)[k].value)
         /\ Len(Tags(m, 0)[k].value) \in Nat \ {0}
  BY <1>2, TagsOf DEF Readable, Tag
<1>4. CASE m # "clock"
  <2>1. Tags(m, junk) = Tags(m, 0)
    BY <1>4 DEF Behind
  <2>2. QED
    BY <1>2, <1>3, <2>1
<1>5. CASE m = "clock"
  <2>1. Tags(m, junk) = clock_tags(junk) /\ Tags(m, 0) = clock_tags(0)
    BY <1>5, TagsAre
  <2>2. Refusable # RateId
    BY DEF Refusable, RateId, command, Get
  <2>3. QED
    BY <1>1, <1>2, <1>3, <2>1, <2>2, ClockReadable
<1>6. QED
  BY <1>4, <1>5

(* What get_tag returns of a message that has been answered.               *)
Good(g, m) ==
    LET tags == Tags(m, 0)
    IN  \A k \in DOMAIN tags :
           /\ g[k].id = tags[k].id /\ g[k].size = tags[k].size
           /\ \/ tags[k].id = Refusable /\ g[k] = tags[k]
              \/ /\ g[k].code = Answered32
                 /\ \A j \in 1 .. tags[k].size \div 4 :
                       g[k].value[j] = Answer(tags[k].id, g[k].value[1], j)

Count(m) == Len(Tags(m, 0))

At(w, m, k) ==
    \E junk \in Junk : Behind(m, junk) /\ UpTo(w, Tags(m, junk), k)

LEMMA TagsRead ==
  ASSUME NEW m \in Messages, NEW w, At(w, m, Count(m) + 1)
  PROVE  Good([k \in DOMAIN Tags(m, 0) |-> get_tag(w, Tags(m, 0), k)], m)
<1> DEFINE t0 == Tags(m, 0)
           g == [k \in DOMAIN t0 |-> get_tag(w, t0, k)]
<1>1. PICK junk \in Junk : Behind(m, junk) /\ UpTo(w, Tags(m, junk), Count(m) + 1)
  BY DEF At
<1> DEFINE tags == Tags(m, junk)
<1>2. ASSUME NEW k \in DOMAIN t0
      PROVE  /\ g[k].id = t0[k].id /\ g[k].size = t0[k].size
             /\ \/ t0[k].id = Refusable /\ g[k] = t0[k]
                \/ /\ g[k].code = Answered32
                   /\ \A j \in 1 .. t0[k].size \div 4 :
                         g[k].value[j] = Answer(t0[k].id, g[k].value[1], j)
  <2> DEFINE o == Offset(t0, k)
             l == Len(t0[k].value)
  <2>1. /\ k \in 1 .. Count(m) /\ Len(tags) = Count(m) /\ Count(m) \in Nat
        /\ Offset(tags, k) = o /\ tags[k].id = t0[k].id
        /\ tags[k].size = t0[k].size /\ Len(tags[k].value) = l
        /\ t0[k].size = 4 * l /\ l \in Nat \ {0}
        /\ t0[k].value \in Seq(Int)
        /\ t0[k].id = Refusable => tags = t0
    BY <1>1, Shape DEF Count
  <2>2. o \in Nat
    <3>1. t0 \in Seq(Tag) /\ k \in 1 .. Len(t0) + 1
      <4>1. 0 \in Junk
        BY JunkIs
      <4>2. Readable(t0)
        BY <4>1, ReadableTags
      <4>3. QED
        BY <2>1, <4>2 DEF Readable, Count
    <3> HIDE DEF t0
    <3>2. QED
      BY <3>1, OffsetsGrow
  <2>3. Settled(w, tags[k], o)
    <3>1. k < Count(m) + 1
      BY <2>1
    <3>2. QED
      BY <1>1, <2>1, <3>1 DEF UpTo
  <2>4. DOMAIN t0[k].value = 1 .. l
    BY <2>1, LenProperties
  <2>5. g[k] = [id |-> w[o + 1], size |-> w[o + 2], code |-> w[o + 3],
                value |-> [j \in 1 .. l |-> w[o + 3 + j]]]
    BY <2>4 DEF get_tag
  <2>6. (4 * l) \div 4 = l
    <3> HIDE DEF l
    <3>1. QED
      BY <2>1
  <2>7. \A j \in 1 .. l : o + 3 + j = o + (3 + j)
    <3> HIDE DEF l, o
    <3>1. QED
      BY <2>1, <2>2
  <2> DEFINE v == [j \in 1 .. l |-> w[o + 3 + j]]
  <2>8. \A j \in 1 .. l : v[j] = w[o + (3 + j)]
    <3> HIDE DEF l, o
    <3>1. QED
      BY <2>7
  <2>9. v[1] = w[o + 4]
    <3>1. 1 \in 1 .. l /\ o + (3 + 1) = o + 4
      <4> HIDE DEF l, o
      <4>1. QED
        BY <2>1, <2>2
    <3> HIDE DEF v
    <3>2. QED
      BY <2>8, <3>1
  <2>10. CASE Reply(w, tags[k], o)
    <3>1. /\ w[o + 1] = t0[k].id /\ w[o + 2] = t0[k].size
          /\ w[o + 3] = Answered32
          /\ \A x \in 1 .. l : w[o + (3 + x)] = Answer(t0[k].id, w[o + 4], x)
      BY <2>1, <2>10 DEF Reply
    <3>2. \A j \in 1 .. l : v[j] = Answer(t0[k].id, v[1], j)
      <4> HIDE DEF v, l, o
      <4>1. QED
        BY <2>8, <2>9, <3>1
    <3>3. t0[k].size \div 4 = l
      <4> HIDE DEF l
      <4>1. QED
        BY <2>1, <2>6
    <3>4. /\ g[k].id = w[o + 1] /\ g[k].size = w[o + 2] /\ g[k].code = w[o + 3]
          /\ g[k].value = v
      <4> HIDE DEF g, v, o
      <4>1. QED
        BY <2>5 DEF v
    <3> HIDE DEF v, g, o, l, t0
    <3>5. QED
      BY <3>1, <3>2, <3>3, <3>4
  <2>11. CASE t0[k].id = Refusable /\ Request(w, t0[k], o)
    <3>1. /\ w[o + 1] = t0[k].id /\ w[o + 2] = t0[k].size
          /\ w[o + 3] = t0[k].code
          /\ \A x \in 1 .. l : w[o + (3 + x)] = t0[k].value[x]
      BY <2>11 DEF Request
    <3>2. v = t0[k].value
      <4>1. \A j \in 1 .. l : v[j] = t0[k].value[j]
        <5> HIDE DEF v, l, o
        <5>1. QED
          BY <2>8, <3>1
      <4>2. v = [j \in 1 .. l |-> v[j]]
        OBVIOUS
      <4>3. t0[k].value = [j \in 1 .. l |-> t0[k].value[j]]
        BY <2>1, <2>4
      <4> HIDE DEF v, l, t0
      <4>4. QED
        BY <4>1, <4>2, <4>3
    <3>3. t0[k] \in Tag
      <4>1. 0 \in Junk
        BY JunkIs
      <4>2. Readable(t0)
        BY <4>1, ReadableTags
      <4>3. QED
        BY <2>1, <4>2, TagsOf DEF Readable, Count
    <3>4. g[k] = t0[k]
      <4>1. t0[k] = [id |-> t0[k].id, size |-> t0[k].size,
                     code |-> t0[k].code, value |-> t0[k].value]
        BY <3>3 DEF Tag
      <4> HIDE DEF g, v, o, l, t0
      <4>2. g[k] = [id |-> w[o + 1], size |-> w[o + 2], code |-> w[o + 3],
                    value |-> v]
        BY <2>5 DEF v
      <4>3. QED
        BY <3>1, <3>2, <4>1, <4>2
    <3> HIDE DEF g, t0, o
    <3>5. QED
      BY <2>11, <3>4
  <2>12. QED
    BY <2>1, <2>3, <2>10, <2>11 DEF Settled
<1>3. QED
  BY <1>2 DEF Good

-----------------------------------------------------------------------------
(* The walk of the GPU over the caller's message has come to its k-th tag. *)
Walked(p, w, m) ==
    \E k \in 1 .. Count(m) + 1 : p = Offset(Tags(m, 0), k) + 1 /\ At(w, m, k)

(* Up to the first caller that misses its answer: how far the message of   *)
(* the caller has been answered, by where it is.                           *)
Carried ==
    ~missed =>
        /\ pc = "full" => At(words[msg], sent[msg], 1)
        /\ pc = "empty" =>
              /\ outbox # << >> => At(words[msg], sent[msg], 1)
              /\ gpu_state = "working" => Walked(pos, words[msg], sent[msg])
              /\ outbox = << >> /\ gpu_state # "working"
                    => At(words[msg], sent[msg], Count(sent[msg]) + 1)
              /\ gpu_state = "answering" => pos \leq Len(words[msg])

Taken == got # << >> /\ ~missed => Good(got, sent[msg])

(* A clock message at any time, also under a walk that nobody waits for.   *)
Rate == Answer(RateId, emmc, 2)

ClockLike(w) ==
    /\ DOMAIN w = 1 .. 6 /\ w[1] = RateId /\ w[2] = 8
    /\ w[3] # Answered32 \/ w[5] \in {0, Rate}

Clocks ==
    /\ \A b \in Buffers : sent[b] = "clock" => ClockLike(words[b])
    /\ gpu_state = "working" /\ sent[gpu_msg] = "clock" => pos \in {1, 6}
    /\ got # << >> /\ sent[msg] = "clock" => BaseRate(got[1]) \in {0, Rate}

PropTypeOK == sent \in [Buffers -> Messages] /\ DOMAIN words = Buffers

PropInv == PropTypeOK /\ Carried /\ Taken /\ Clocks

(* Every step is a step of the mailbox, or none at all.                    *)
LEMMA MailboxInit == PropInit => Init
BY DEF PropInit

LEMMA MailboxStep == [PropNext]_<<vars, propVars>> => [Next]_vars
<1> SUFFICES ASSUME [PropNext]_<<vars, propVars>> PROVE [Next]_vars
  OBVIOUS
<1>1. CASE MakeMessage
  BY <1>1 DEF MakeMessage, Next
<1>2. CASE CallerStep
  BY <1>2 DEF CallerStep, ReadTags, Next, Caller
<1>3. CASE GpuStep
  BY <1>3 DEF GpuStep, Walk, GpuTag, WalkEnds, Next, Gpu
<1>4. CASE GpuSends /\ UNCHANGED propVars
  BY <1>4 DEF Next
<1>5. CASE UNCHANGED <<vars, propVars>>
  BY <1>5
<1>6. QED
  BY <1>1, <1>2, <1>3, <1>4, <1>5 DEF PropNext

LEMMA MailboxInvariant == PropSpec => []IInv
BY MailboxInit, MailboxStep, InitInv, StepInv, PTL DEF PropSpec

(* A message as its caller makes it.                                       *)
LEMMA Made ==
  ASSUME NEW m \in Messages, NEW junk \in Junk, Behind(m, junk)
  PROVE  At(Layout[m][junk], m, 1) /\ (m = "clock" => ClockLike(Layout[m][junk]))
<1>1. Layout[m][junk] = property_message(Tags(m, junk))
  BY DEF Layout, Messages
<1>2. UpTo(property_message(Tags(m, junk)), Tags(m, junk), 1)
  BY ReadableTags, LaidOut
<1>3. At(Layout[m][junk], m, 1)
  BY <1>1, <1>2 DEF At
<1>4. ASSUME m = "clock" PROVE ClockLike(Layout[m][junk])
  <2> DEFINE tags == clock_tags(junk)
             w == property_message(tags)
  <2>1. junk \in Nat
    BY JunkIs
  <2>2. /\ Readable(tags) /\ Len(tags) = 1 /\ Offset(tags, 1) = 0
        /\ End(tags) = 5 /\ Len(tags[1].value) = 2
        /\ tags[1].id = RateId /\ tags[1].size = 8 /\ tags[1].code = 4
    BY <2>1, ClockReadable
  <2>3. Tags(m, junk) = tags
    BY <1>4, TagsAre
  <2> HIDE DEF tags
  <2>4. UpTo(w, tags, 1)
    BY <1>2, <2>3
  <2>5. Request(w, tags[1], 0)
    <3>1. 1 \in 1 .. Len(tags) /\ ~(1 < 1)
      BY <2>2
    <3>2. QED
      BY <2>2, <2>4, <3>1 DEF UpTo
  <2>6. w[1] = RateId /\ w[2] = 8 /\ w[3] = 4
    <3>1. 0 + 1 = 1 /\ 0 + 2 = 2 /\ 0 + 3 = 3
      OBVIOUS
    <3>2. QED
      BY <2>2, <2>5, <3>1 DEF Request
  <2>7. DOMAIN w = 1 .. 6
    <3>1. DOMAIN w = 1 .. Len(w) /\ Len(w) = tags_size(tags) \div 4
      <4> HIDE DEF w
      <4>1. w \in Seq(Int) /\ Len(w) = tags_size(tags) \div 4
        BY <2>4 DEF UpTo
      <4>2. QED
        BY <4>1, LenProperties
    <3>2. total_tag_size(tags) = 20
      <4>1. tags \in Seq(Tag) /\ End(tags) = 5
        BY <2>2 DEF Readable
      <4>2. total_tag_size(tags) = 4 * End(tags)
        BY <4>1, OffsetIs DEF End
      <4>3. QED
        BY <4>1, <4>2
    <3>3. tags_size(tags) = 24
      BY <3>2 DEF tags_size, align_up
    <3>4. QED
      BY <3>1, <3>3
  <2>8. QED
    BY <1>1, <2>3, <2>6, <2>7 DEF ClockLike, Answered32
<1>5. QED
  BY <1>3, <1>4

(* Up to the first caller that misses its answer, its message is in one    *)
(* place, and the GPU has no other.                                        *)
LEMMA OnePlace ==
  ASSUME IInv, ~missed
  PROVE  /\ pc # "empty" => gpu_state = "idle" /\ outbox = << >>
         /\ outbox # << >> => gpu_state = "idle" /\ outbox = <<msg>>
         /\ gpu_state # "idle" => gpu_msg = msg /\ outbox = << >>
         /\ pc = "empty" /\ inbox # << >> /\ Head(inbox) = msg
              => gpu_state = "idle" /\ outbox = << >>
<1>1. inbox \in Seq(Data) /\ msg \in Buffers /\ msg # Foreign
  BY TypesOfFifos, MailboxAssumption DEF IInv, MailboxAssumption
<1>2. inbox # << >> /\ OnlyForeign(inbox) => Head(inbox) = Foreign
  BY <1>1, TakeForeign
<1>3. QED
  BY <1>1, <1>2 DEF IInv, OwnInv, Quiet, Sent, Working, Answering, Replied

LEMMA InitProp == PropInit => PropInv
<1> SUFFICES ASSUME PropInit PROVE PropInv
  OBVIOUS
<1>1. /\ sent \in [Buffers -> Messages]
      /\ words = [b \in Buffers |-> Layout[sent[b]][0]]
      /\ got = << >> /\ gpu_state = "idle" /\ pc = "idle"
  BY PropertyCallAssumption
  DEF PropInit, Init, PropertyCallAssumption, Messages
<1>2. \A b \in Buffers : sent[b] = "clock" => ClockLike(words[b])
  BY <1>1, Made, JunkIs DEF Behind
<1>3. PropTypeOK
  BY <1>1 DEF PropTypeOK
<1>4. QED
  BY <1>1, <1>2, <1>3 DEF PropInv, Carried, Taken, Clocks

LEMMA MakeMessageProp == PropInv /\ MakeMessage => PropInv'
<1> SUFFICES ASSUME PropInv, MakeMessage PROVE PropInv'
  OBVIOUS
<1>1. /\ PropTypeOK /\ Clocks
      /\ CallMailbox /\ got' = << >> /\ UNCHANGED <<sent, pos>>
  BY DEF PropInv, MakeMessage
<1>2. PICK junk \in Junk :
         /\ sent[msg'] # "clock" => junk = 0
         /\ words' = [words EXCEPT ![msg'] = Layout[sent[msg']][junk]]
  BY DEF MakeMessage
<1>3. /\ msg' \in Buffers /\ pc' = "full"
      /\ UNCHANGED <<outbox, inbox, gpu_state, gpu_msg, missed>>
  BY <1>1 DEF CallMailbox, gpuVars
<1>4. /\ sent' = sent /\ sent \in [Buffers -> Messages] /\ DOMAIN words = Buffers
  BY <1>1 DEF PropTypeOK
<1>5. /\ DOMAIN words' = Buffers /\ words'[msg'] = Layout[sent[msg']][junk]
      /\ \A b \in Buffers : b # msg' => words'[b] = words[b]
  BY <1>2, <1>3, <1>4
<1>6. /\ At(words'[msg'], sent[msg'], 1)
      /\ sent[msg'] = "clock" => ClockLike(words'[msg'])
  <2>1. sent[msg'] \in Messages /\ Behind(sent[msg'], junk)
    BY <1>2, <1>3, <1>4 DEF Behind
  <2>2. QED
    BY <1>5, <2>1, Made
<1>7. PropTypeOK'
  BY <1>4, <1>5 DEF PropTypeOK
<1>8. Carried'
  BY <1>3, <1>4, <1>6 DEF Carried
<1>9. Taken'
  BY <1>1 DEF Taken
<1>10. Clocks'
  <2>1. ASSUME NEW b \in Buffers, sent[b] = "clock" PROVE ClockLike(words'[b])
    BY <1>1, <1>5, <1>6, <2>1 DEF Clocks
  <2>2. gpu_state' = "working" /\ sent'[gpu_msg'] = "clock" => pos' \in {1, 6}
    BY <1>1, <1>3 DEF Clocks
  <2>3. QED
    BY <1>1, <1>4, <2>1, <2>2 DEF Clocks
<1>11. QED
  BY <1>7, <1>8, <1>9, <1>10 DEF PropInv

(* Steps of the mailbox after which the message is where it was.           *)
LEMMA SameWalk ==
  ASSUME PropInv, UNCHANGED propVars, msg' = msg,
         gpu_state' = "working" => gpu_state = "working" /\ gpu_msg' = gpu_msg,
         missed => missed', Carried'
  PROVE  PropInv'
<1>1. sent' = sent /\ words' = words /\ got' = got /\ pos' = pos
  BY DEF propVars
<1>2. PropTypeOK'
  BY <1>1 DEF PropInv, PropTypeOK
<1>3. Taken'
  BY <1>1 DEF PropInv, Taken
<1>4. Clocks'
  BY <1>1 DEF PropInv, Clocks
<1>5. QED
  BY <1>2, <1>3, <1>4 DEF PropInv

LEMMA CallProp ==
  PropInv /\ IInv /\ (send_message \/ CallAnswered \/ CallRetries)
    /\ UNCHANGED propVars => PropInv'
<1> SUFFICES ASSUME PropInv, IInv, send_message \/ CallAnswered \/ CallRetries,
                    UNCHANGED propVars
             PROVE  PropInv'
  OBVIOUS
<1>1. /\ UNCHANGED <<gpu_state, gpu_msg, msg>> /\ (missed => missed')
  BY DEF send_message, CallAnswered, CallRetries
<1>2. UNCHANGED <<words, sent, pos>>
  BY DEF propVars
<1>3. CASE send_message
  <2>1. pc = "full" /\ outbox' # << >> /\ missed' = missed
    <3>1. outbox \in Seq(Buffers) /\ msg \in Buffers
      BY TypesOfFifos DEF IInv
    <3>2. QED
      BY <1>3, <3>1 DEF send_message
  <2>2. ~missed => gpu_state = "idle" /\ At(words[msg], sent[msg], 1)
    BY <2>1, OnePlace DEF PropInv, Carried
  <2>3. Carried'
    BY <1>1, <1>2, <1>3, <2>1, <2>2 DEF Carried, send_message
  <2>4. QED
    BY <1>1, <2>3, SameWalk
<1>4. CASE CallAnswered
  <2>1. pc' = "idle"
    BY <1>4 DEF CallAnswered
  <2>2. Carried'
    BY <2>1 DEF Carried
  <2>3. QED
    BY <1>1, <2>2, SameWalk
<1>5. CASE CallRetries
  <2>1. pc = "empty" /\ outbox' = outbox /\ (pc' = "empty" \/ pc' = "idle")
    BY <1>5 DEF CallRetries
  <2>2. Carried'
    BY <1>1, <1>2, <2>1 DEF PropInv, Carried
  <2>3. QED
    BY <1>1, <2>2, SameWalk
<1>6. QED
  BY <1>3, <1>4, <1>5

LEMMA SendsProp == PropInv /\ GpuSends /\ UNCHANGED propVars => PropInv'
<1> SUFFICES ASSUME PropInv, GpuSends, UNCHANGED propVars PROVE PropInv'
  OBVIOUS
<1>1. UNCHANGED <<outbox, gpu_state, gpu_msg, pc, msg, missed>>
  BY DEF GpuSends, callerVars
<1>2. UNCHANGED <<words, sent, pos>>
  BY DEF propVars
<1>3. Carried'
  BY <1>1, <1>2 DEF PropInv, Carried
<1>4. QED
  BY <1>1, <1>3, SameWalk

LEMMA AnswersProp == PropInv /\ IInv /\ GpuAnswers /\ UNCHANGED propVars => PropInv'
<1> SUFFICES ASSUME PropInv, IInv, GpuAnswers, UNCHANGED propVars PROVE PropInv'
  OBVIOUS
<1>1. /\ gpu_state = "answering" /\ gpu_state' = "idle"
      /\ UNCHANGED <<outbox, pc, msg, missed>>
  BY DEF GpuAnswers, callerVars
<1>2. UNCHANGED <<words, sent, pos>>
  BY DEF propVars
<1>3. ~missed => outbox = << >> /\ pc = "empty"
  BY <1>1, OnePlace
<1>4. Carried'
  BY <1>1, <1>2, <1>3 DEF PropInv, Carried
<1>5. QED
  BY <1>1, <1>4, SameWalk

LEMMA StutterProp == PropInv /\ UNCHANGED <<vars, propVars>> => PropInv'
<1> SUFFICES ASSUME PropInv, UNCHANGED <<vars, propVars>> PROVE PropInv'
  OBVIOUS
<1>1. UNCHANGED <<outbox, gpu_state, gpu_msg, pc, msg, missed>>
  BY DEF vars, gpuVars, callerVars
<1>2. UNCHANGED <<words, sent, pos>> /\ UNCHANGED propVars
  BY DEF propVars
<1>3. Carried'
  BY <1>1, <1>2 DEF PropInv, Carried
<1>4. QED
  BY <1>1, <1>2, <1>3, SameWalk

-----------------------------------------------------------------------------
LEMMA Places ==
  ASSUME NEW m \in Messages
  PROVE  /\ Count(m) \in Nat \ {0}
         /\ \A k \in 1 .. Count(m) + 1 : Offset(Tags(m, 0), k) \in Nat
         /\ Offset(Tags(m, 0), 1) = 0
         /\ Offset(Tags(m, 0), Count(m) + 1) = End(Tags(m, 0))
<1>1. Readable(Tags(m, 0))
  BY JunkIs, ReadableTags
<1>2. QED
  BY <1>1, OffsetIs, OffsetsGrow DEF Count, Readable, End

(* Where the walk is, in the terms of the message as it was made.          *)
LEMMA SamePlace ==
  ASSUME NEW m \in Messages, NEW junk \in Junk, Behind(m, junk)
  PROVE  /\ Len(Tags(m, junk)) = Count(m) /\ Readable(Tags(m, junk))
         /\ \A k \in 1 .. Count(m) + 1 :
               Offset(Tags(m, junk), k) = Offset(Tags(m, 0), k)
<1>1. Len(Tags(m, junk)) = Count(m) /\ Count(m) \in Nat \ {0}
  BY Shape, Places DEF Count
<1>2. \A k \in 1 .. Count(m) : Offset(Tags(m, junk), k) = Offset(Tags(m, 0), k)
  BY Shape DEF Count
<1>3. Offset(Tags(m, junk), Count(m) + 1) = Offset(Tags(m, 0), Count(m) + 1)
  BY <1>1, Shape, Places DEF End
<1>4. QED
  BY <1>1, <1>2, <1>3, ReadableTags

(* The GPU at a tag of the message, and what it makes of it; behind the    *)
(* last one it stops, inside the message.                                  *)
LEMMA WalkStep ==
  ASSUME NEW m \in Messages, NEW w, NEW k \in 1 .. Count(m) + 1, At(w, m, k)
  PROVE  LET p == Offset(Tags(m, 0), k) + 1
         IN  /\ k \leq Count(m) =>
                   /\ p + 2 \leq Len(w) /\ w[p] > 0 /\ w[p + 1] \geq 0
                   /\ p + 3 + (w[p + 1] \div 4) = Offset(Tags(m, 0), k + 1) + 1
                   /\ At(Written(w, p), m, k + 1)
                   /\ w[p] = Refusable => At(w, m, k + 1)
             /\ k = Count(m) + 1 => w[p] = 0 /\ p \leq Len(w)
<1> DEFINE o == Offset(Tags(m, 0), k)
<1>1. PICK junk \in Junk : Behind(m, junk) /\ UpTo(w, Tags(m, junk), k)
  BY DEF At
<1> DEFINE tags == Tags(m, junk)
<1>2. /\ Len(tags) = Count(m) /\ Readable(tags) /\ Count(m) \in Nat \ {0}
      /\ \A j \in 1 .. Count(m) + 1 : Offset(tags, j) = Offset(Tags(m, 0), j)
  BY <1>1, SamePlace, Places
<1>3. UpTo(w, tags, k) /\ Offset(tags, k) = o
  BY <1>1, <1>2
<1> HIDE DEF tags
<1>4. ASSUME k \leq Count(m)
      PROVE  /\ o + 1 + 2 \leq Len(w) /\ w[o + 1] > 0 /\ w[o + 1 + 1] \geq 0
             /\ o + 1 + 3 + (w[o + 1 + 1] \div 4) = Offset(Tags(m, 0), k + 1) + 1
             /\ At(Written(w, o + 1), m, k + 1)
             /\ w[o + 1] = Refusable => At(w, m, k + 1)
  <2>1. k \in 1 .. Len(tags) /\ k + 1 \in 1 .. Count(m) + 1
    BY <1>2, <1>4
  <2>2. Offset(tags, k + 1) = Offset(Tags(m, 0), k + 1)
    BY <1>2, <2>1
  <2>3. /\ o + 1 + 2 \leq Len(w) /\ w[o + 1] = tags[k].id /\ w[o + 1] > 0
        /\ w[o + 1 + 1] \geq 0
        /\ o + 1 + 3 + (w[o + 1 + 1] \div 4) = Offset(tags, k + 1) + 1
    <3> HIDE DEF o
    <3>1. QED
      BY <1>2, <1>3, <2>1, FoundAt
  <2>4. UpTo(Written(w, o + 1), tags, k + 1)
    <3> HIDE DEF o
    <3>1. QED
      BY <1>2, <1>3, <2>1, Replied1
  <2>5. w[o + 1] = Refusable => UpTo(w, tags, k + 1)
    BY <1>2, <1>3, <2>1, <2>3, Refused
  <2>6. /\ At(Written(w, o + 1), m, k + 1)
        /\ w[o + 1] = Refusable => At(w, m, k + 1)
    BY <1>1, <2>4, <2>5 DEF At, tags
  <2> HIDE DEF o
  <2>7. QED
    BY <2>2, <2>3, <2>6
<1>5. ASSUME k = Count(m) + 1
      PROVE  w[o + 1] = 0 /\ o + 1 \leq Len(w)
  <2>1. UpTo(w, tags, Len(tags) + 1) /\ End(tags) = o
    BY <1>2, <1>3, <1>5 DEF End
  <2>2. QED
    BY <1>2, <2>1, EndsAt
<1>6. QED
  BY <1>4, <1>5

LEMMA WalkProp == PropInv /\ IInv /\ Walk => PropInv'
<1> SUFFICES ASSUME PropInv, IInv, Walk PROVE PropInv'
  OBVIOUS
<1>1. /\ outbox # << >> /\ gpu_state' = "working" /\ outbox' = Tail(outbox)
      /\ UNCHANGED <<pc, msg, missed, words, sent, got>> /\ pos' = 1
  BY DEF Walk, GpuTakes, callerVars
<1>2. PropTypeOK' /\ Taken' /\ Clocks'
  BY <1>1 DEF PropInv, PropTypeOK, Taken, Clocks
<1>3. Carried'
  <2> SUFFICES ASSUME ~missed', pc' = "empty"
               PROVE  /\ outbox' # << >> => At(words[msg], sent[msg], 1)
                      /\ Walked(1, words[msg], sent[msg])
    BY <1>1, OnePlace DEF Carried
  <2>1. At(words[msg], sent[msg], 1)
    BY <1>1 DEF PropInv, Carried
  <2>2. sent[msg] \in Messages
    BY TypesOfFifos DEF IInv, PropInv, PropTypeOK
  <2>3. 1 \in 1 .. Count(sent[msg]) + 1 /\ 1 = Offset(Tags(sent[msg], 0), 1) + 1
    BY <2>2, Places
  <2>4. QED
    BY <2>1, <2>3 DEF Walked
<1>4. QED
  BY <1>2, <1>3 DEF PropInv

(* A clock message under the GPU, whoever waits for it.                    *)
LEMMA ClockAnswered ==
  ASSUME NEW w, ClockLike(w)
  PROVE  /\ ClockLike(Written(w, 1)) /\ w[1] # Refusable
         /\ 1 + 3 + (w[1 + 1] \div 4) = 6
<1>1. DOMAIN w = 1 .. 6 /\ w[1] = RateId /\ w[2] = 8
  BY DEF ClockLike
<1>2. RateId # Refusable
  BY DEF Refusable, RateId, command, Get
<1>3. 8 \div 4 = 2 /\ 1 + 1 = 2 /\ 1 + 2 = 3 /\ 1 + 3 = 4 /\ 3 + 2 = 5
  OBVIOUS
<1>4. /\ DOMAIN Written(w, 1) = 1 .. 6 /\ Written(w, 1)[1] = RateId
      /\ Written(w, 1)[2] = 8
      /\ Written(w, 1)[5] = Answer(RateId, w[4], 2)
  <2>1. 1 \notin 4 .. 5 /\ 2 \notin 4 .. 5 /\ 5 \in 4 .. 5 /\ 5 - 1 - 2 = 2
    OBVIOUS
  <2>2. Written(w, 1) = [y \in 1 .. 6 |->
           IF y = 3 THEN Answered32
           ELSE IF y \in 4 .. 5 THEN Answer(RateId, w[4], y - 1 - 2) ELSE w[y]]
    BY <1>1, <1>3 DEF Written
  <2>3. QED
    BY <1>1, <2>1, <2>2
<1>5. Answer(RateId, w[4], 2) \in {0, Rate}
  BY DEF Answer, Rate, RateId
<1>6. QED
  BY <1>1, <1>2, <1>3, <1>4, <1>5 DEF ClockLike

LEMMA TagProp == PropInv /\ IInv /\ GpuTag => PropInv'
<1> SUFFICES ASSUME PropInv, IInv, GpuTag PROVE PropInv'
  OBVIOUS
<1> DEFINE w == words[gpu_msg]
<1>1. /\ gpu_state = "working" /\ AtTag
      /\ UNCHANGED <<vars, sent, got>>
      /\ pos' = pos + 3 + (w[pos + 1] \div 4)
  BY DEF GpuTag
<1>2. UNCHANGED <<outbox, gpu_state, gpu_msg, pc, msg, missed>>
  BY <1>1 DEF vars, gpuVars, callerVars
<1>3. \/ w[pos] = Refusable /\ words' = words
      \/ words' = [words EXCEPT ![gpu_msg] = Written(w, pos)]
  BY DEF GpuTag, Written
<1>4. gpu_msg \in Buffers /\ msg \in Buffers /\ DOMAIN words = Buffers
      /\ sent \in [Buffers -> Messages]
  BY TypesOfFifos DEF IInv, PropInv, PropTypeOK
<1>5. /\ DOMAIN words' = Buffers
      /\ \A b \in Buffers : b # gpu_msg => words'[b] = words[b]
      /\ \/ words'[gpu_msg] = Written(w, pos)
         \/ w[pos] = Refusable /\ words'[gpu_msg] = w
  <2>1. CASE w[pos] = Refusable /\ words' = words
    BY <1>4, <2>1
  <2> DEFINE u == Written(w, pos)
  <2>2. CASE words' = [words EXCEPT ![gpu_msg] = u]
    <3> HIDE DEF u
    <3>1. DOMAIN words' = Buffers /\ words'[gpu_msg] = u
      BY <1>4, <2>2
    <3>2. \A b \in Buffers : b # gpu_msg => words'[b] = words[b]
      BY <1>4, <2>2
    <3>3. words'[gpu_msg] = Written(w, pos)
      BY <3>1 DEF u
    <3>4. QED
      BY <3>1, <3>2, <3>3
  <2>3. QED
    BY <1>3, <2>1, <2>2
<1>6. PropTypeOK' /\ Taken'
  BY <1>1, <1>2, <1>5 DEF PropInv, PropTypeOK, Taken
<1>7. Clocks'
  <2>1. ASSUME sent[gpu_msg] = "clock"
        PROVE  ClockLike(words'[gpu_msg]) /\ pos' \in {1, 6}
    <3>1. ClockLike(w) /\ pos \in {1, 6}
      BY <1>1, <1>4, <2>1 DEF PropInv, Clocks
    <3>2. pos # 6
      BY <1>1, <3>1 DEF AtTag, ClockLike
    <3>3. pos = 1
      BY <3>1, <3>2
    <3>4. QED
      BY <1>1, <1>5, <3>1, <3>3, ClockAnswered
  <2>2. ASSUME NEW b \in Buffers, sent[b] = "clock" PROVE ClockLike(words'[b])
    BY <1>4, <1>5, <2>1, <2>2 DEF PropInv, Clocks
  <2>3. got' # << >> /\ sent'[msg'] = "clock" => BaseRate(got'[1]) \in {0, Rate}
    BY <1>1, <1>2 DEF PropInv, Clocks
  <2>4. QED
    BY <1>1, <1>2, <2>1, <2>2, <2>3 DEF Clocks
<1>8. Carried'
  <2> SUFFICES ASSUME ~missed
               PROVE  /\ pc = "empty" /\ outbox = << >>
                      /\ Walked(pos', words'[msg], sent[msg])
    BY <1>1, <1>2 DEF Carried
  <2> DEFINE m == sent[msg]
  <2>1. gpu_msg = msg /\ pc = "empty" /\ outbox = << >>
    BY <1>1, OnePlace
  <2>2. m \in Messages
    BY <1>4
  <2>3. PICK k \in 1 .. Count(m) + 1 :
           pos = Offset(Tags(m, 0), k) + 1 /\ At(w, m, k)
    BY <1>1, <2>1 DEF PropInv, Carried, Walked
  <2>4. Count(m) \in Nat \ {0}
    BY <2>2, Places
  <2>5. k \leq Count(m)
    <3>1. w[pos] # 0
      BY <1>1 DEF AtTag
    <3>2. k = Count(m) + 1 => w[pos] = 0
      BY <2>2, <2>3, WalkStep
    <3>3. QED
      BY <2>4, <3>1, <3>2
  <2>6. /\ pos' = Offset(Tags(m, 0), k + 1) + 1
        /\ At(Written(w, pos), m, k + 1)
        /\ w[pos] = Refusable => At(w, m, k + 1)
    BY <1>1, <2>2, <2>3, <2>5, WalkStep
  <2>7. At(words'[msg], m, k + 1)
    BY <1>5, <2>1, <2>6
  <2>8. k + 1 \in 1 .. Count(m) + 1
    BY <2>4, <2>5
  <2>9. QED
    BY <2>1, <2>6, <2>7, <2>8 DEF Walked
<1>9. QED
  BY <1>6, <1>7, <1>8 DEF PropInv

LEMMA WalkEndsProp == PropInv /\ IInv /\ WalkEnds => PropInv'
<1> SUFFICES ASSUME PropInv, IInv, WalkEnds PROVE PropInv'
  OBVIOUS
<1>1. /\ gpu_state = "working" /\ gpu_state' = "answering" /\ ~AtTag
      /\ UNCHANGED <<outbox, gpu_msg, pc, msg, missed>> /\ UNCHANGED propVars
  BY DEF WalkEnds, GpuWrites, callerVars
<1>2. UNCHANGED <<words, sent, pos>>
  BY <1>1 DEF propVars
<1>3. Carried'
  <2> DEFINE m == sent[msg]
             w == words[msg]
  <2> SUFFICES ASSUME ~missed
               PROVE  /\ pc = "empty" /\ outbox = << >>
                      /\ At(w, m, Count(m) + 1)
                      /\ pos \leq Len(w)
    BY <1>1, <1>2 DEF Carried
  <2>1. gpu_msg = msg /\ pc = "empty" /\ outbox = << >>
    BY <1>1, OnePlace
  <2>2. m \in Messages
    BY TypesOfFifos DEF IInv, PropInv, PropTypeOK
  <2>3. PICK k \in 1 .. Count(m) + 1 :
           pos = Offset(Tags(m, 0), k) + 1 /\ At(w, m, k)
    BY <1>1, <2>1 DEF PropInv, Carried, Walked
  <2>4. Count(m) \in Nat \ {0} /\ Offset(Tags(m, 0), k) \in Nat
    BY <2>2, Places
  <2>5. k = Count(m) + 1
    <3>1. k \leq Count(m) => pos + 2 \leq Len(w) /\ w[pos] > 0 /\ w[pos + 1] \geq 0
      BY <2>2, <2>3, WalkStep
    <3>2. ~(k \leq Count(m))
      BY <1>1, <2>1, <3>1 DEF AtTag
    <3>3. QED
      BY <2>4, <3>2
  <2>6. pos \leq Len(w)
    BY <2>2, <2>3, <2>5, WalkStep
  <2>7. QED
    BY <2>1, <2>3, <2>5, <2>6
<1>4. QED
  BY <1>1, <1>3, SameWalk

(* get_tag of a clock message, whatever has become of it.                  *)
LEMMA RateRead ==
  ASSUME NEW w, ClockLike(w),
         NEW g, g = [k \in DOMAIN Tags("clock", 0) |-> get_tag(w, Tags("clock", 0), k)]
  PROVE  BaseRate(g[1]) \in {0, Rate}
<1> DEFINE tags == clock_tags(0)
<1>1. /\ Len(tags) = 1 /\ Offset(tags, 1) = 0 /\ Len(tags[1].value) = 2
      /\ Readable(tags) /\ Tags("clock", 0) = tags
  BY ClockReadable, TagsAre
<1> HIDE DEF tags
<1>2. 1 \in DOMAIN tags /\ DOMAIN tags[1].value = 1 .. 2
  <2>1. tags \in Seq(Tag) /\ tags[1].value \in Seq(Int)
    BY <1>1, TagsOf DEF Readable, Tag
  <2>2. DOMAIN tags = 1 .. 1 /\ DOMAIN tags[1].value = 1 .. 2
    BY <1>1, <2>1, LenProperties
  <2>3. QED
    BY <2>2
<1>3. g[1] = get_tag(w, tags, 1)
  BY <1>1, <1>2
<1>4. get_tag(w, tags, 1).code = w[3] /\ get_tag(w, tags, 1).value[2] = w[5]
  <2>1. 0 + 3 = 3 /\ 3 + 2 = 5 /\ 2 \in 1 .. 2
    OBVIOUS
  <2>2. QED
    BY <1>1, <1>2, <2>1 DEF get_tag
<1>5. QED
  BY <1>3, <1>4 DEF BaseRate, ClockLike

LEMMA ReadTagsProp == PropInv /\ IInv /\ ReadTags => PropInv'
<1> SUFFICES ASSUME PropInv, IInv, ReadTags PROVE PropInv'
  OBVIOUS
<1> DEFINE m == sent[msg]
           w == words[msg]
           tags == Tags(m, 0)
<1>1. /\ pc = "empty" /\ inbox # << >> /\ pc' = "idle"
      /\ ~missed' => ~missed /\ Head(inbox) = msg
      /\ UNCHANGED <<outbox, gpu_state, gpu_msg, msg, words, sent, pos>>
  BY DEF ReadTags, PropertyReturns, read_message
<1>2. got' = [k \in DOMAIN tags |-> get_tag(w, tags, k)]
  BY DEF ReadTags
<1>3. m \in Messages /\ msg \in Buffers
  BY TypesOfFifos DEF IInv, PropInv, PropTypeOK
<1>4. PropTypeOK' /\ Carried'
  BY <1>1 DEF PropInv, PropTypeOK, Carried
<1>5. Taken'
  <2> SUFFICES ASSUME ~missed' PROVE Good(got', m)
    BY <1>1 DEF Taken
  <2>1. At(w, m, Count(m) + 1)
    BY <1>1, OnePlace DEF PropInv, Carried
  <2>2. QED
    BY <1>2, <1>3, <2>1, TagsRead
<1>6. Clocks'
  <2>1. ASSUME m = "clock" PROVE BaseRate(got'[1]) \in {0, Rate}
    <3>1. ClockLike(w)
      BY <1>3, <2>1 DEF PropInv, Clocks
    <3>2. got' = [k \in DOMAIN Tags("clock", 0) |-> get_tag(w, Tags("clock", 0), k)]
      BY <1>2, <2>1
    <3>3. QED
      BY <3>1, <3>2, RateRead
  <2>2. QED
    BY <1>1, <2>1 DEF PropInv, Clocks
<1>7. QED
  BY <1>4, <1>5, <1>6 DEF PropInv

LEMMA StepProp == PropInv /\ IInv /\ [PropNext]_<<vars, propVars>> => PropInv'
<1> SUFFICES ASSUME PropInv, IInv, [PropNext]_<<vars, propVars>> PROVE PropInv'
  OBVIOUS
<1>1. CASE MakeMessage
  BY <1>1, MakeMessageProp
<1>2. CASE CallerStep
  BY <1>2, ReadTagsProp, CallProp DEF CallerStep
<1>3. CASE GpuStep
  BY <1>3, WalkProp, TagProp, WalkEndsProp, AnswersProp DEF GpuStep
<1>4. CASE GpuSends /\ UNCHANGED propVars
  BY <1>4, SendsProp
<1>5. CASE UNCHANGED <<vars, propVars>>
  BY <1>5, StutterProp
<1>6. QED
  BY <1>1, <1>2, <1>3, <1>4, <1>5 DEF PropNext

(* Under the calls with their messages the mailbox is the mailbox.          *)
THEOREM ImplementsMailbox == PropSpec => Spec
BY MailboxInit, MailboxStep, PTL DEF PropSpec, Spec

(* The inductive invariant of the calls with their messages: how far the   *)
(* message has been answered goes with the place it is in.                 *)
THEOREM PropInvariant == PropSpec => [](IInv /\ PropInv)
BY MailboxInvariant, InitProp, StepProp, PTL DEF PropSpec

(* The constructor, the walk of the GPU and get_tag agree about where each *)
(* tag is, and there is a word left for the end tag.                       *)
THEOREM TagsAgree == PropSpec => []TagsAreAnswers
<1>1. IInv /\ PropInv => TagsAreAnswers
  <2> SUFFICES ASSUME IInv, PropInv PROVE TagsAreAnswers
    OBVIOUS
  <2>1. EndTagInside
    BY OnePlace DEF EndTagInside, PropInv, Carried
  <2>2. got # << >> /\ ~missed => Good(got, sent[msg])
    BY DEF PropInv, Taken
  <2>3. QED
    BY <2>1, <2>2 DEF TagsAreAnswers, Good
<1>2. QED
  BY <1>1, PropInvariant, PTL

(* The rate get_base_clock_rate goes on with is 0 or what the GPU said.    *)
THEOREM RateIsTrue == PropSpec => []RateIsAnswered
<1>1. PropInv => RateIsAnswered
  BY DEF PropInv, Clocks, RateIsAnswered, Rate, RateId
<1>2. QED
  BY <1>1, PropInvariant, PTL
=============================================================================
