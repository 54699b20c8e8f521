---------------------------- MODULE SdInitProofs ----------------------------
(***************************************************************************)
(* Proofs about SdInit, for every host, every size of card, every number   *)
(* of polls and any number of damaged commands.                            *)
(***************************************************************************)
EXTENDS SdInit, TLAPS

(* The steps of init before the card has said what it can do, from then to *)
(* its address, from there to its selection, and after it is selected.     *)
Begins     == {"device_init", "clock_identification", "go_idle_state",
               "send_if_cond"}
PowersUp   == {"app_op_cond", "send_op_cond"}
Identifies == {"voltage_switch", "all_send_cid", "send_relative_addr"}
Addresses  == {"send_csd", "clock_normal", "select_card"}
AsksScr    == {"app_scr", "send_scr"}
Selected   == {"switch_query", "switch_func", "clock_high_speed",
               "app_bus_width", "set_bus_width"}

(* The card has an address once it has left identification.                *)
AddressInv == card.rca = IF card.state \in {"stby", "tran"} THEN CardRca ELSE 0

(* An answer init waits for is not yet in the RESP registers, nor in       *)
(* response[]: only the card can put it there, and only in the state in    *)
(* which it takes the command.                                             *)
AnswerInv ==
    /\ pc \in Begins =>
          {resp, response} \subseteq {"none", "r1", "op_ready"}
    /\ pc \in PowersUp => resp \in {"if_cond", "r1", "op_busy"}
    /\ pc = "voltage_switch" => resp = "op_ready" /\ response = "op_ready"
    /\ pc = "all_send_cid" => resp \in {"op_ready", "r1"}
    /\ pc = "send_relative_addr" => resp \in {"op_ready", "r1", "cid"}

(* What the card has done by each step, whatever was damaged: it may stay  *)
(* behind, but a driver that addresses it has its address.                 *)
CardInv ==
    /\ pc \in Begins \cup PowersUp \cup Identifies => rca = 0
    /\ pc \in PowersUp => card.state \in {"idle", "ready"}
    /\ pc \in {"voltage_switch", "all_send_cid"} => card.state = "ready"
    /\ pc = "send_relative_addr" => card.state \in {"ready", "ident"}
    /\ pc \in Addresses =>
          /\ card.state \in {"ready", "ident", "stby"}
          /\ rca = CardRca => card.state = "stby"
    /\ pc \in AsksScr =>
          /\ card.state \in {"ready", "ident", "stby", "tran"}
          /\ card.state = "tran" => rca = CardRca
    /\ pc \in Selected => card.state = "tran" /\ rca = CardRca
    /\ pc \in Identifies \cup Addresses \cup AsksScr \cup Selected =>
          sdhc = traits.hc

(* With nothing damaged the card has done all of it.                       *)
NoFaultInv ==
    faults = 0 =>
        /\ pc = "send_relative_addr" => card.state = "ident"
        /\ pc \in Addresses => card.state = "stby" /\ rca = CardRca
        /\ pc \in AsksScr => card.state = "tran"
        /\ pc \in ((Addresses \cup AsksScr \cup Selected) \ {"send_csd"})
              => csd = "csd"
        /\ pc \in Selected => hostWidth = card.width
        /\ pc = "set_bus_width" => card.app

(* The rates asked for by each step, and what a faster one needs.          *)
ClockInv ==
    /\ pc \in Begins \cup PowersUp \cup Identifies =>
          clock \in {"firmware", "identification"}
    /\ pc \in Addresses \cup AsksScr \cup (Selected \ {"app_bus_width",
                                                       "set_bus_width"})
          => clock # "high"
    /\ pc \in {"switch_func", "clock_high_speed"} => traits.fast # "no"
    /\ pc = "clock_high_speed" => card.high \/ traits.fast = "refuses"

(* block_count is what the register of the card says.                      *)
CountIs ==
    /\ block_count.n = IF register.c_size = 2^22 - 1 THEN 0
                       ELSE register.c_size + 1
    /\ block_count.shift = IF traits.hc THEN 10 ELSE register.mult + 2

SizeInv == csd = "csd" => CountIs

(* init has returned where its steps end.                                  *)
DoneInv == result # "none" => pc = "done"

IInv == /\ TypeOK /\ AddressInv /\ AnswerInv /\ CardInv /\ NoFaultInv
        /\ ClockInv /\ SizeInv /\ DoneInv /\ Ready /\ Agreed /\ Clocked

-----------------------------------------------------------------------------
Refused == [card EXCEPT !.app = FALSE]

(* What a call of send_command leaves behind: the card as it was, or as    *)
(* the command makes it; a new answer only of a card that took the command;*)
(* data only if it did; and a known outcome when nothing was damaged.      *)
LEMMA Sent ==
  ASSUME NEW c, NEW a, NEW ok \in BOOLEAN, TypeOK, send_command(c, a, ok)
  PROVE  /\ \/ card' = card
            \/ card' = Refused
            \/ Accepts(c, a) /\ card' = After(c, a)
         /\ \/ resp' = resp
            \/ Accepts(c, a) /\ card' = After(c, a) /\ resp' = Answer(c)
         /\ response' = IF ok /\ c # "go_idle_state" THEN resp' ELSE response
         /\ ok /\ isdata(c) =>
              Accepts(c, a) /\ card' = After(c, a) /\ hostWidth = card.width
         /\ faults' \in 0 .. MaxFaults
         /\ faults' = 0 =>
              /\ faults = 0
              /\ Accepts(c, a) => card' = After(c, a) /\ resp' = Answer(c)
              /\ ~Accepts(c, a) => card' = Refused
<1>1. faults \in 0 .. MaxFaults /\ MaxFaults \in Nat
  BY SdInitAssumption DEF SdInitAssumption, TypeOK
<1>2. isdata(c) \in BOOLEAN
  BY DEF isdata
<1>3. QED
  BY <1>1, <1>2 DEF send_command, Refused

(* The card after each command.                                            *)
LEMMA Taken ==
  ASSUME NEW a, TypeOK
  PROVE  /\ After("go_idle_state", a)
              = [Refused EXCEPT !.state = "idle", !.rca = 0, !.width = 1,
                                !.high = FALSE]
         /\ \A c \in {"send_if_cond", "send_csd", "send_scr"} :
               After(c, a) = Refused
         /\ After("app_cmd", a) = [card EXCEPT !.app = TRUE]
         /\ After("send_op_cond", a) =
              IF PoweredUp THEN [Refused EXCEPT !.state = "ready"]
              ELSE [Refused EXCEPT !.polls = IF card.polls = 0 THEN 0
                                             ELSE card.polls - 1]
         /\ After("voltage_switch", a) = [Refused EXCEPT !.signal = "1.8V"]
         /\ After("all_send_cid", a) = [Refused EXCEPT !.state = "ident"]
         /\ After("send_relative_addr", a)
              = [Refused EXCEPT !.state = "stby", !.rca = CardRca]
         /\ After("select_card", a) = [Refused EXCEPT !.state = "tran"]
         /\ After("switch_func", a)
              = [Refused EXCEPT !.high = card.high
                                  \/ (a = 1 /\ traits.fast = "switches")]
         /\ After("set_bus_width", a)
              = [Refused EXCEPT !.width = IF card.app THEN 4 ELSE card.width]
<1>1. card \in Card
  BY DEF TypeOK
<1>2. QED
  BY <1>1 DEF After, Refused, Card

(* k is the card but for app, signal and polls.                            *)
Same(k) == /\ k \in Card /\ k.state = card.state /\ k.rca = card.rca
           /\ k.width = card.width /\ k.high = card.high

LEMMA Fields ==
  ASSUME NEW a, TypeOK
  PROVE  /\ Same(card) /\ Same(Refused)
         /\ LET k == After("go_idle_state", a)
            IN  k \in Card /\ k.state = "idle" /\ k.rca = 0
         /\ \A c \in {"send_if_cond", "send_csd", "send_scr",
                      "voltage_switch"} : Same(After(c, a))
         /\ Same(After("app_cmd", a)) /\ After("app_cmd", a).app
         /\ LET k == After("send_op_cond", a)
            IN  /\ k \in Card /\ k.rca = card.rca
                /\ k.state = IF PoweredUp THEN "ready" ELSE card.state
         /\ LET k == After("all_send_cid", a)
            IN  k \in Card /\ k.state = "ident" /\ k.rca = card.rca
         /\ LET k == After("send_relative_addr", a)
            IN  k \in Card /\ k.state = "stby" /\ k.rca = CardRca
         /\ LET k == After("select_card", a)
            IN  k \in Card /\ k.state = "tran" /\ k.rca = card.rca
         /\ LET k == After("switch_func", a)
            IN  /\ k \in Card /\ k.state = card.state /\ k.rca = card.rca
                /\ k.width = card.width
                /\ k.high = (card.high \/ (a = 1 /\ traits.fast = "switches"))
         /\ LET k == After("set_bus_width", a)
            IN  /\ k \in Card /\ k.state = card.state /\ k.rca = card.rca
                /\ k.width = IF card.app THEN 4 ELSE card.width
                /\ k.high = card.high
<1>1. card \in Card
  BY DEF TypeOK
<1>2. card.polls \in 0 .. MaxPolls /\ MaxPolls \in Nat
  BY <1>1, SdInitAssumption DEF SdInitAssumption, Card
<1>3. (IF card.polls = 0 THEN 0 ELSE card.polls - 1) \in 0 .. MaxPolls
  BY <1>2
<1>4. /\ Refused \in Card
      /\ Refused.state = card.state /\ Refused.rca = card.rca
      /\ Refused.width = card.width /\ Refused.high = card.high
  BY <1>1 DEF Refused, Card
<1>5. Same(card) /\ Same(Refused)
  BY <1>1, <1>4 DEF Same
<1>6. LET k == After("go_idle_state", a)
      IN  /\ k \in Card
          /\ k.state = "idle" /\ k.rca = 0
  <2>1. After("go_idle_state", a)
          = [Refused EXCEPT !.state = "idle", !.rca = 0, !.width = 1,
                            !.high = FALSE]
    BY Taken
  <2>2. QED
    BY <1>4, <2>1 DEF Card, CardStates
<1>7. ASSUME NEW c \in {"send_if_cond", "send_csd", "send_scr",
                       "voltage_switch"}
      PROVE  Same(After(c, a))
  <2>1. CASE c = "voltage_switch"
    <3>1. After(c, a) = [Refused EXCEPT !.signal = "1.8V"]
      BY <2>1, Taken
    <3>2. QED
      BY <1>4, <3>1 DEF Same, Card
  <2>2. CASE c # "voltage_switch"
    <3>1. After(c, a) = Refused
      BY <2>2, Taken
    <3>2. QED
      BY <1>5, <3>1
  <2>3. QED
    BY <2>1, <2>2
<1>8. Same(After("app_cmd", a)) /\ After("app_cmd", a).app
  <2>1. After("app_cmd", a) = [card EXCEPT !.app = TRUE]
    BY Taken
  <2>2. QED
    BY <1>1, <2>1 DEF Same, Card
<1>9. LET k == After("send_op_cond", a)
      IN  /\ k \in Card /\ k.rca = card.rca
          /\ k.state = IF PoweredUp THEN "ready" ELSE card.state
  <2>1. CASE PoweredUp
    <3>1. After("send_op_cond", a) = [Refused EXCEPT !.state = "ready"]
      BY <2>1, Taken
    <3>2. QED
      BY <1>4, <2>1, <3>1 DEF Card, CardStates
  <2>2. CASE ~PoweredUp
    <3> DEFINE p == IF card.polls = 0 THEN 0 ELSE card.polls - 1
    <3>1. After("send_op_cond", a) = [Refused EXCEPT !.polls = p]
      BY <2>2, Taken
    <3>2. p \in 0 .. MaxPolls
      BY <1>3
    <3> HIDE DEF p
    <3>3. QED
      BY <1>4, <2>2, <3>1, <3>2 DEF Card
  <2>3. QED
    BY <2>1, <2>2
<1>10. LET k == After("all_send_cid", a)
       IN  /\ k \in Card
           /\ k.state = "ident" /\ k.rca = card.rca
  <2>1. After("all_send_cid", a) = [Refused EXCEPT !.state = "ident"]
    BY Taken
  <2>2. QED
    BY <1>4, <2>1 DEF Card, CardStates
<1>11. LET k == After("send_relative_addr", a)
       IN  /\ k \in Card
           /\ k.state = "stby" /\ k.rca = CardRca
  <2>1. After("send_relative_addr", a)
          = [Refused EXCEPT !.state = "stby", !.rca = CardRca]
    BY Taken
  <2>2. QED
    BY <1>4, <2>1 DEF Card, CardStates
<1>12. LET k == After("select_card", a)
       IN  /\ k \in Card
           /\ k.state = "tran" /\ k.rca = card.rca
  <2>1. After("select_card", a) = [Refused EXCEPT !.state = "tran"]
    BY Taken
  <2>2. QED
    BY <1>4, <2>1 DEF Card, CardStates
<1>13. LET k == After("switch_func", a)
       IN  /\ k \in Card /\ k.state = card.state /\ k.rca = card.rca
           /\ k.width = card.width
           /\ k.high = (card.high \/ (a = 1 /\ traits.fast = "switches"))
  <2> DEFINE h == card.high \/ (a = 1 /\ traits.fast = "switches")
  <2>1. h \in BOOLEAN
    OBVIOUS
  <2>2. After("switch_func", a) = [Refused EXCEPT !.high = h]
    BY Taken
  <2> HIDE DEF h
  <2>3. /\ [Refused EXCEPT !.high = h] \in Card
        /\ [Refused EXCEPT !.high = h].state = card.state
        /\ [Refused EXCEPT !.high = h].rca = card.rca
        /\ [Refused EXCEPT !.high = h].width = card.width
        /\ [Refused EXCEPT !.high = h].high = h
    BY <1>4, <2>1 DEF Card
  <2>4. QED
    BY <2>2, <2>3 DEF h
<1>14. LET k == After("set_bus_width", a)
       IN  /\ k \in Card /\ k.state = card.state /\ k.rca = card.rca
           /\ k.width = IF card.app THEN 4 ELSE card.width
           /\ k.high = card.high
  <2> DEFINE w == IF card.app THEN 4 ELSE card.width
  <2>1. After("set_bus_width", a) = [Refused EXCEPT !.width = w]
    BY Taken
  <2>2. w \in {1, 4}
    BY <1>1 DEF Card
  <2> HIDE DEF w
  <2>3. /\ [Refused EXCEPT !.width = w] \in Card
        /\ [Refused EXCEPT !.width = w].state = card.state
        /\ [Refused EXCEPT !.width = w].rca = card.rca
        /\ [Refused EXCEPT !.width = w].width = w
        /\ [Refused EXCEPT !.width = w].high = card.high
    BY <1>4, <2>2 DEF Card
  <2>4. QED
    BY <2>1, <2>3 DEF w
<1>15. QED
  BY <1>5, <1>6, <1>7, <1>8, <1>9, <1>10, <1>11, <1>12, <1>13, <1>14

-----------------------------------------------------------------------------
(* parse_csd puts C_SIZE together again from the bytes it is spread over.  *)
LEMMA LongSize ==
  ASSUME NEW c \in Nat
  PROVE  (c \div 65536) * 65536 + ((c \div 256) % 256) * 256 + (c % 256) = c
<1> DEFINE q == c \div 256
<1>1. /\ c \in Nat /\ q \in Nat /\ c = q * 256 + (c % 256)
      /\ c % 256 \in 0 .. 255
  OBVIOUS
<1>2. /\ q \div 256 \in Nat /\ q = (q \div 256) * 256 + (q % 256)
      /\ q % 256 \in 0 .. 255
  OBVIOUS
<1>3. c \div 65536 = q \div 256
  <2> HIDE DEF q
  <2> DEFINE h == q \div 256
             u == q % 256
             v == c % 256
             l == u * 256 + v
  <2>1. /\ h \in Nat /\ c \in Nat /\ u \in 0 .. 255 /\ v \in 0 .. 255
        /\ q = h * 256 + u /\ c = q * 256 + v
    BY <1>1, <1>2
  <2> HIDE DEF h, u, v
  <2>2. l \in 0 .. 65535 /\ c = h * 65536 + l
    BY <2>1
  <2> HIDE DEF l
  <2>3. c \div 65536 = h
    BY <2>1, <2>2
  <2>4. QED
    BY <2>3 DEF h
<1>4. (q \div 256) * 65536 + (q % 256) * 256 + (c % 256) = c
  <2> HIDE DEF q
  <2>1. QED
    BY <1>1, <1>2
<1>5. QED
  BY <1>3, <1>4

LEMMA ShortSize ==
  ASSUME NEW c \in Nat, c < 2^12
  PROVE  ((c \div 1024) % 4) * 1024 + ((c \div 4) % 256) * 4
           + ((c % 4) * 64) \div 64 = c
<1> DEFINE p == c \div 4
<1>1. /\ p \in Nat /\ c = p * 4 + (c % 4) /\ c % 4 \in 0 .. 3
  OBVIOUS
<1>2. /\ p \div 256 \in Nat /\ p = (p \div 256) * 256 + (p % 256)
      /\ p % 256 \in 0 .. 255
  OBVIOUS
<1>3. ((c % 4) * 64) \div 64 = c % 4
  BY <1>1
<1>4. c \div 1024 = p \div 256 /\ p \div 256 \in 0 .. 3
  <2> HIDE DEF p
  <2> DEFINE h == p \div 256
             l == (p % 256) * 4 + (c % 4)
  <2>1. l \in 0 .. 1023 /\ c = h * 1024 + l /\ h \in Nat
    BY <1>1, <1>2
  <2>2. c < 4096
    OBVIOUS
  <2> HIDE DEF h, l
  <2>3. c \div 1024 = h /\ h \in 0 .. 3
    BY <2>1, <2>2
  <2>4. QED
    BY <2>3 DEF h
<1>5. (c \div 1024) % 4 = p \div 256
  BY <1>4
<1> HIDE DEF p
<1>6. (p \div 256) * 1024 + (p % 256) * 4 + (c % 4) = c
  BY <1>1, <1>2
<1>7. QED
  BY <1>3, <1>5, <1>6 DEF p

LEMMA SizeFields ==
  ASSUME NEW k \in 0 .. 2^22 - 1, NEW j \in 0 .. 10
  PROVE  /\ [n |-> k, shift |-> j] \in Counts
         /\ [n |-> k, shift |-> j].n = k
         /\ [n |-> k, shift |-> j].shift = j
BY DEF Counts

LEMMA CardSize ==
  ASSUME traits \in Cards, sdhc = traits.hc, NEW r \in Registers
  PROVE  /\ csize(Bytes(r)) \in Counts
         /\ csize(Bytes(r)).n
              = IF r.c_size = 2^22 - 1 THEN 0 ELSE r.c_size + 1
         /\ csize(Bytes(r)).shift = IF traits.hc THEN 10 ELSE r.mult + 2
         /\ Bytes(r)[9] = r.len
<1> DEFINE c == r.c_size
           m == r.mult
           b == Bytes(r)
<1>1. c \in 0 .. 2^22 - 1 /\ m \in 0 .. 7
  BY SdInitAssumption DEF SdInitAssumption, Registers, Register
<1>2. CASE traits.hc
  <2>1. /\ b[5] = c % 256 /\ b[6] = (c \div 256) % 256
        /\ b[7] = c \div 65536 /\ b[9] = r.len
    BY <1>2 DEF Bytes
  <2> HIDE DEF b
  <2>2. csize(b) = [n |-> (b[7] * 65536 + b[6] * 256 + b[5] + 1) % 2^22,
                    shift |-> 10]
    BY <1>2 DEF csize
  <2> HIDE DEF c
  <2>3. b[7] * 65536 + b[6] * 256 + b[5] = c
    <3>1. (c \div 65536) * 65536 + ((c \div 256) % 256) * 256 + (c % 256) = c
      <4>1. c \in Nat
        BY <1>1
      <4>2. QED
        BY <4>1, LongSize
    <3>2. /\ c % 256 \in Nat /\ (c \div 256) % 256 \in Nat
          /\ c \div 65536 \in Nat
      BY <1>1
    <3>3. QED
      BY ONLY <2>1, <3>1, <3>2
  <2>4. csize(b) = [n |-> (c + 1) % 2^22, shift |-> 10]
    BY <2>2, <2>3
  <2>5. (c + 1) % 2^22 = IF c = 2^22 - 1 THEN 0 ELSE c + 1
    BY <1>1
  <2> DEFINE k == IF c = 2^22 - 1 THEN 0 ELSE c + 1
  <2>6. k \in 0 .. 2^22 - 1
    BY <1>1
  <2>7. csize(b) = [n |-> k, shift |-> 10]
    BY <2>4, <2>5
  <2> HIDE DEF k
  <2>8. /\ csize(b).n = k /\ csize(b).shift = 10
        /\ csize(b) \in Counts
    <3> DEFINE R == [n |-> k, shift |-> 10]
    <3>1. R \in Counts /\ R.n = k /\ R.shift = 10
      <4>1. 10 \in 0 .. 10
        OBVIOUS
      <4>2. QED
        BY <2>6, <4>1, SizeFields, Zenon
    <3> HIDE DEF R
    <3>2. csize(b).n = k /\ csize(b).shift = 10 /\ csize(b) \in Counts
      BY <2>7, <3>1, Zenon DEF R
    <3>3. QED
      BY <3>2
  <2>9. QED
    <3>1. csize(Bytes(r)).n = IF c = 2^22 - 1 THEN 0 ELSE c + 1
      BY <2>8, Zenon DEF b, k
    <3>2. csize(Bytes(r)).shift = IF traits.hc THEN 10 ELSE m + 2
      BY <1>2, <2>8 DEF b
    <3>3. csize(Bytes(r)) \in Counts
      BY <2>8, Zenon DEF b
    <3>4. Bytes(r)[9] = r.len
      BY <1>2 DEF Bytes
    <3>5. QED
      BY <3>1, <3>2, <3>3, <3>4, Zenon DEF c, m
<1>3. CASE ~traits.hc
  <2>1. /\ b[4] = (m % 2) * 128 /\ b[5] = m \div 2
        /\ b[6] = (c % 4) * 64 /\ b[7] = (c \div 4) % 256
        /\ b[8] = c \div 1024 /\ b[9] = r.len
    BY <1>3 DEF Bytes
  <2>2. c < 2^12
    BY <1>3 DEF Registers
  <2> HIDE DEF b
  <2>3. csize(b)
          = [n     |-> (b[8] % 4) * 1024 + b[7] * 4 + b[6] \div 64 + 1,
             shift |-> (b[5] % 4) * 2 + b[4] \div 128 + 2]
    BY <1>3 DEF csize
  <2> HIDE DEF c, m
  <2>4. (b[8] % 4) * 1024 + b[7] * 4 + b[6] \div 64 = c
    <3>1. ((c \div 1024) % 4) * 1024 + ((c \div 4) % 256) * 4
            + ((c % 4) * 64) \div 64 = c
      <4>1. c \in Nat
        BY <1>1
      <4>2. QED
        BY <2>2, <4>1, ShortSize
    <3>2. QED
      BY ONLY <2>1, <3>1
  <2>5. (b[5] % 4) * 2 + b[4] \div 128 = m
    <3>1. ((m \div 2) % 4) * 2 + ((m % 2) * 128) \div 128 = m
      BY <1>1
    <3>2. QED
      BY <2>1, <3>1
  <2>6. csize(b) = [n |-> c + 1, shift |-> m + 2]
    BY <2>3, <2>4, <2>5
  <2>7. c + 1 \in 0 .. 2^22 - 1 /\ m + 2 \in 0 .. 10 /\ c # 2^22 - 1
    BY <1>1, <2>2
  <2>8. /\ csize(b).n = c + 1 /\ csize(b).shift = m + 2
        /\ csize(b) \in Counts
    <3> DEFINE R == [n |-> c + 1, shift |-> m + 2]
    <3>1. R \in Counts /\ R.n = c + 1 /\ R.shift = m + 2
      BY <2>7, SizeFields
    <3> HIDE DEF R
    <3>2. csize(b).n = c + 1 /\ csize(b).shift = m + 2 /\ csize(b) \in Counts
      BY <2>6, <3>1, Zenon DEF R
    <3>3. QED
      BY <3>2
  <2>9. QED
    BY <1>3, <2>1, <2>7, <2>8 DEF b, c, m
<1>4. QED
  BY <1>2, <1>3

-----------------------------------------------------------------------------
LEMMA InitOK == Init => IInv
<1> SUFFICES ASSUME Init
             PROVE  IInv
  OBVIOUS
<1>1. traits \in Cards /\ traits.width \in {1, 4}
  BY DEF Init, Cards, Traits
<1>2. PICK w \in {1, 4}, p \in 0 .. MaxPolls :
        /\ hostWidth = w
        /\ \/ card = [state |-> "idle", app |-> FALSE, polls |-> p,
                      rca |-> 0, width |-> 1, signal |-> "3.3V",
                      high |-> FALSE]
           \/ card = [state |-> "tran", app |-> FALSE, polls |-> p,
                      rca |-> CardRca, width |-> w, signal |-> "3.3V",
                      high |-> FALSE]
  BY <1>1 DEF Init
<1>3. card \in Card
  <2>1. ASSUME NEW st \in CardStates, NEW ad \in {0, CardRca},
               NEW wi \in {1, 4}
        PROVE  [state |-> st, app |-> FALSE, polls |-> p, rca |-> ad,
                width |-> wi, signal |-> "3.3V", high |-> FALSE] \in Card
    BY DEF Card
  <2>2. "idle" \in CardStates /\ "tran" \in CardStates
    BY DEF CardStates
  <2>3. QED
    BY <1>2, <2>1, <2>2
<1>4. card.rca = IF card.state \in {"stby", "tran"} THEN CardRca ELSE 0
  BY <1>2
<1>5. sdhc \in BOOLEAN /\ voltage_1_8 \in BOOLEAN
  BY DEF Init
<1>6. faults \in 0 .. MaxFaults
  <2>1. faults = 0 /\ MaxFaults \in Nat
    BY SdInitAssumption DEF Init, SdInitAssumption
  <2>2. QED
    BY ONLY <2>1
<1>7. block_count \in Counts /\ block_size \in Sizes
  <2>1. 0 \in 0 .. 2^22 - 1 /\ 0 \in 0 .. 10
    OBVIOUS
  <2>2. block_count \in Counts
    BY <2>1, SizeFields, Zenon DEF Init, Nothing
  <2>3. QED
    BY <2>2 DEF Init, Sizes
<1>8. TypeOK
  BY <1>1, <1>2, <1>3, <1>5, <1>6, <1>7 DEF Init, TypeOK, Pcs, Answers
<1>9. QED
  BY <1>4, <1>8 DEF Init, IInv, AddressInv, AnswerInv, CardInv, NoFaultInv,
     ClockInv, SizeInv, CountIs, DoneInv, Ready, Agreed, Clocked, Begins,
     PowersUp, Identifies, Addresses, AsksScr, Selected

LEMMA SizesOK ==
  /\ 0 \in Sizes /\ 8 \in Sizes /\ 64 \in Sizes /\ 512 \in Sizes
  /\ \A l \in Lens \cup {9} : 2^l \in Sizes
<1>1. \A l \in Lens \cup {9} : 2^l \in Sizes
  BY DEF Sizes
<1>2. 9 \in Lens \cup {9}
  OBVIOUS
<1>3. 2^9 \in Sizes
  BY <1>1, <1>2, Zenon
<1>4. 2^9 = 512
  OBVIOUS
<1>5. 0 \in Sizes /\ 8 \in Sizes /\ 64 \in Sizes
  BY DEF Sizes
<1>6. QED
  BY <1>1, <1>3, <1>4, <1>5

LEMMA DeviceInitOK ==
  ASSUME IInv, DeviceInit
  PROVE  IInv'
<1> USE DEF DeviceInit, hostVars, configVars,
            foundVars, csdVars, busVars, Goto, Fail
<1>1. TypeOK'
  BY DEF IInv, TypeOK, Pcs
<1>2. AddressInv' /\ SizeInv'
  BY DEF IInv, AddressInv, SizeInv, CountIs
<1>3. AnswerInv'
  BY DEF IInv, AnswerInv, Begins, PowersUp
<1>4. CardInv'
  BY DEF IInv, CardInv, Begins, PowersUp, Identifies, Addresses, AsksScr,
     Selected
<1>5. NoFaultInv'
  BY DEF IInv, NoFaultInv, Addresses, AsksScr, Selected
<1>6. ClockInv'
  BY DEF IInv, ClockInv, Begins, PowersUp, Identifies, Addresses, AsksScr,
     Selected
<1>7. DoneInv' /\ Ready' /\ Agreed'
  BY DEF IInv, DoneInv, Ready, Agreed
<1>8. Clocked'
  BY DEF IInv, Clocked
<1>9. QED
  BY <1>1, <1>2, <1>3, <1>4, <1>5, <1>6, <1>7, <1>8 DEF IInv

LEMMA ClockIdentificationOK ==
  ASSUME IInv, ClockIdentification
  PROVE  IInv'
<1> USE DEF ClockIdentification, SetClockRate, hostVars, configVars,
            foundVars, csdVars, busVars, Goto, Fail
<1>1. TypeOK'
  BY DEF IInv, TypeOK, Pcs
<1>2. AddressInv' /\ SizeInv'
  BY DEF IInv, AddressInv, SizeInv, CountIs
<1>3. AnswerInv'
  BY DEF IInv, AnswerInv, Begins, PowersUp
<1>4. CardInv'
  BY DEF IInv, CardInv, Begins, PowersUp, Identifies, Addresses, AsksScr,
     Selected
<1>5. NoFaultInv'
  BY DEF IInv, NoFaultInv, Addresses, AsksScr, Selected
<1>6. ClockInv'
  BY DEF IInv, ClockInv, Begins, PowersUp, Identifies, Addresses, AsksScr,
     Selected
<1>7. DoneInv' /\ Ready' /\ Agreed'
  BY DEF IInv, DoneInv, Ready, Agreed
<1>8. Clocked'
  BY DEF IInv, Clocked
<1>9. QED
  BY <1>1, <1>2, <1>3, <1>4, <1>5, <1>6, <1>7, <1>8 DEF IInv

LEMMA ClockNormalOK ==
  ASSUME IInv, ClockNormal
  PROVE  IInv'
<1> USE DEF ClockNormal, SetClockRate, hostVars, configVars,
            foundVars, csdVars, busVars, Goto, Fail
<1>1. TypeOK'
  BY DEF IInv, TypeOK, Pcs
<1>2. AddressInv' /\ SizeInv'
  BY DEF IInv, AddressInv, SizeInv, CountIs
<1>3. AnswerInv'
  BY DEF IInv, AnswerInv, Begins, PowersUp
<1>4. CardInv'
  BY DEF IInv, CardInv, Begins, PowersUp, Identifies, Addresses, AsksScr,
     Selected
<1>5. NoFaultInv'
  BY DEF IInv, NoFaultInv, Addresses, AsksScr, Selected
<1>6. ClockInv'
  BY DEF IInv, ClockInv, Begins, PowersUp, Identifies, Addresses, AsksScr,
     Selected
<1>7. DoneInv' /\ Ready' /\ Agreed'
  BY DEF IInv, DoneInv, Ready, Agreed
<1>8. Clocked'
  BY DEF IInv, Clocked, NoFaultInv, Addresses
<1>9. QED
  BY <1>1, <1>2, <1>3, <1>4, <1>5, <1>6, <1>7, <1>8 DEF IInv

LEMMA ClockHighSpeedOK ==
  ASSUME IInv, ClockHighSpeed
  PROVE  IInv'
<1> USE DEF ClockHighSpeed, BusWidth, Finish, hostVars, configVars,
            foundVars, csdVars, busVars, Goto, Fail
<1>1. TypeOK'
  BY SizesOK DEF IInv, TypeOK, Pcs
<1>2. AddressInv' /\ SizeInv'
  BY DEF IInv, AddressInv, SizeInv, CountIs
<1>3. AnswerInv'
  BY DEF IInv, AnswerInv, Begins, PowersUp
<1>4. CardInv'
  BY DEF IInv, CardInv, Begins, PowersUp, Identifies, Addresses, AsksScr,
     Selected
<1>5. NoFaultInv'
  BY DEF IInv, NoFaultInv, Addresses, AsksScr, Selected
<1>6. ClockInv'
  BY DEF IInv, ClockInv, Begins, PowersUp, Identifies, Addresses, AsksScr,
     Selected
<1>7. DoneInv' /\ Ready' /\ Agreed'
  BY DEF IInv, DoneInv, Ready, Agreed, AddressInv, CardInv, NoFaultInv,
     Selected
<1>8. Clocked'
  BY DEF IInv, Clocked, ClockInv, CardInv, Selected
<1>9. QED
  BY <1>1, <1>2, <1>3, <1>4, <1>5, <1>6, <1>7, <1>8 DEF IInv

LEMMA GoIdleStateOK ==
  ASSUME IInv, GoIdleState
  PROVE  IInv'
<1>a. PICK ok \in BOOLEAN :
        /\ send_command("go_idle_state", 0, ok)
        /\ pc = "go_idle_state"
        /\ \/ ok /\ Goto("send_if_cond")
           \/ ~ok /\ Fail
        /\ UNCHANGED <<hostVars, configVars, foundVars>>
  BY DEF GoIdleState, Command
<1>b. /\ card' \in Card
      /\ card'.rca = IF card'.state \in {"stby", "tran"} THEN CardRca ELSE 0
      /\ card'.state \in {card.state, "idle"}
      /\ resp' = resp /\ response' = response
      /\ faults' \in 0 .. MaxFaults
      /\ faults' = 0 => faults = 0 /\ card'.state = "idle"
  <2> DEFINE k == After("go_idle_state", 0)
  <2>1. /\ card' = card \/ card' = Refused \/ card' = k
        /\ resp' = resp
        /\ response' = response
        /\ faults' \in 0 .. MaxFaults
        /\ faults' = 0 => faults = 0 /\ card' = k
    BY <1>a, Sent DEF IInv, Accepts, Answer
  <2>2. Same(card) /\ Same(Refused)
        /\ k \in Card /\ k.state = "idle" /\ k.rca = 0
    BY Fields DEF IInv
  <2> HIDE DEF k
  <2>3. QED
    BY <2>1, <2>2 DEF IInv, Same, AddressInv
<1>c. result' = "none" \/ (result' = "false" /\ pc' = "done")
  BY <1>a DEF IInv, DoneInv, TypeOK, Goto, Fail
<1> USE DEF hostVars, configVars, foundVars, csdVars, busVars, Goto, Fail
<1>1. TypeOK'
  BY <1>a, <1>b DEF IInv, TypeOK, Pcs, Answers
<1>2. AddressInv' /\ SizeInv'
  BY <1>a, <1>b DEF IInv, AddressInv, SizeInv, CountIs
<1>3. AnswerInv'
  BY <1>a, <1>b DEF IInv, AnswerInv, Begins, PowersUp
<1>4. CardInv'
  BY <1>a, <1>b DEF IInv, CardInv, Begins, PowersUp, Identifies, Addresses,
     AsksScr, Selected
<1>5. NoFaultInv'
  BY <1>a, <1>b DEF IInv, NoFaultInv, Addresses, AsksScr, Selected
<1>6. ClockInv'
  BY <1>a, <1>b DEF IInv, ClockInv, Begins, PowersUp, Identifies, Addresses,
     AsksScr, Selected
<1>7. DoneInv' /\ Ready' /\ Agreed'
  BY <1>c DEF DoneInv, Ready, Agreed
<1>8. Clocked'
  BY <1>a, <1>b DEF IInv, Clocked, ClockInv, Begins
<1>9. QED
  BY <1>1, <1>2, <1>3, <1>4, <1>5, <1>6, <1>7, <1>8 DEF IInv

(* Most commands leave the card where it is.                               *)
LEMMA Kept ==
  ASSUME TypeOK, NEW a, NEW ok \in BOOLEAN,
         NEW c \in {"send_if_cond", "app_cmd", "voltage_switch", "send_csd",
                    "send_scr"},
         send_command(c, a, ok)
  PROVE  Same(card')
<1>1. card' \in {card, Refused, After(c, a)}
  BY Sent
<1>2. Same(card) /\ Same(Refused) /\ Same(After(c, a))
  BY Fields
<1>3. QED
  BY <1>1, <1>2

LEMMA SendIfCondOK ==
  ASSUME IInv, SendIfCond
  PROVE  IInv'
<1>1. PICK ok \in BOOLEAN :
        /\ send_command("send_if_cond", 0, ok)
        /\ pc = "send_if_cond"
        /\ \/ response' = "if_cond" /\ Goto("app_op_cond")
           \/ response' # "if_cond" /\ Fail
        /\ UNCHANGED <<hostVars, configVars, foundVars>>
  BY DEF SendIfCond
<1>2. /\ resp' \in {resp, "if_cond"} /\ response' \in {resp', response}
      /\ response' = "if_cond" => resp' = "if_cond" /\ card.state = "idle"
      /\ card' \in Card /\ card'.state = card.state
      /\ card'.rca = card.rca /\ card'.width = card.width
      /\ card'.high = card.high
      /\ faults' \in 0 .. MaxFaults
  <2>1. /\ resp' = resp \/ (card.state = "idle" /\ resp' = "if_cond")
        /\ response' \in {resp', response}
        /\ faults' \in 0 .. MaxFaults
    BY <1>1, Sent DEF IInv, Accepts, Answer
  <2>2. {resp, response} \subseteq {"none", "r1", "op_ready"}
    BY <1>1 DEF IInv, AnswerInv, Begins
  <2>3. Same(card')
    BY <1>1, Kept DEF IInv
  <2>4. QED
    BY <2>1, <2>2, <2>3 DEF Same
<1>3. result' = "none" \/ (result' = "false" /\ pc' = "done")
  BY <1>1 DEF IInv, DoneInv, TypeOK, Goto, Fail
<1> USE DEF hostVars, configVars, foundVars, csdVars, busVars, Goto, Fail
<1>4. TypeOK'
  <2>1. resp' \in Answers /\ response' \in Answers
    BY <1>1, <1>2, <1>3 DEF IInv, TypeOK, Answers
  <2>2. pc' \in Pcs /\ result' \in {"none", "true", "false"}
    BY <1>1, <1>2, <1>3 DEF IInv, TypeOK, Pcs
  <2>3. QED
    BY <1>1, <1>2, <2>1, <2>2 DEF IInv, TypeOK
<1>5. AddressInv' /\ SizeInv'
  BY <1>1, <1>2, <1>3 DEF IInv, AddressInv, SizeInv, CountIs
<1>6. AnswerInv'
  BY <1>1, <1>2, <1>3 DEF IInv, AnswerInv, Begins, PowersUp, Identifies,
     Addresses, AsksScr, Selected
<1>7. CardInv'
  BY <1>1, <1>2, <1>3 DEF IInv, CardInv, Begins, PowersUp, Identifies,
     Addresses, AsksScr, Selected
<1>8. NoFaultInv'
  BY <1>1, <1>2, <1>3 DEF IInv, NoFaultInv, Addresses, AsksScr, Selected
<1>9. ClockInv'
  BY <1>1, <1>2, <1>3 DEF IInv, ClockInv, Begins, PowersUp, Identifies,
     Addresses, AsksScr, Selected
<1>10. DoneInv' /\ Ready' /\ Agreed'
  BY <1>3 DEF DoneInv, Ready, Agreed
<1>11. Clocked'
  BY <1>1, <1>2, <1>3 DEF IInv, Clocked, ClockInv, Begins, PowersUp,
     Identifies, Addresses, AsksScr, Selected
<1>12. QED
  BY <1>4, <1>5, <1>6, <1>7, <1>8, <1>9, <1>10, <1>11 DEF IInv

LEMMA AppOpCondOK ==
  ASSUME IInv, AppOpCond
  PROVE  IInv'
<1>1. PICK ok \in BOOLEAN :
        /\ send_command("app_cmd", rca, ok)
        /\ pc = "app_op_cond"
        /\ Goto("send_op_cond") \/ Fail
        /\ UNCHANGED <<hostVars, configVars, foundVars>>
  BY DEF AppOpCond, AppCommand
<1>2. /\ resp' \in {resp, "r1"} /\ response' \in {resp', response}
      /\ faults' = 0 =>
            /\ faults = 0
            /\ card.state = "tran" /\ card.rca = rca => card'.app
      /\ card' \in Card /\ card'.state = card.state
      /\ card'.rca = card.rca /\ card'.width = card.width
      /\ card'.high = card.high
      /\ faults' \in 0 .. MaxFaults
  <2>1. /\ resp' \in {resp, "r1"} /\ response' \in {resp', response}
        /\ faults' \in 0 .. MaxFaults
        /\ faults' = 0 =>
              /\ faults = 0
              /\ card.state = "tran" /\ card.rca = rca
                    => card' = After("app_cmd", rca)
    <3>1. Answer("app_cmd") = "r1"
      BY DEF Answer
    <3>2. card.state = "tran" /\ card.rca = rca => Accepts("app_cmd", rca)
      BY DEF Accepts
    <3>3. /\ resp' \in {resp, Answer("app_cmd")}
          /\ response' \in {resp', response}
          /\ faults' \in 0 .. MaxFaults
          /\ faults' = 0 =>
                /\ faults = 0
                /\ Accepts("app_cmd", rca) => card' = After("app_cmd", rca)
      BY <1>1, Sent DEF IInv
    <3>4. QED
      BY <3>1, <3>2, <3>3
  <2>2. After("app_cmd", rca).app
    BY Fields DEF IInv
  <2>3. Same(card')
    BY <1>1, Kept DEF IInv
  <2>4. QED
    BY <2>1, <2>2, <2>3 DEF Same
<1>3. result' = "none" \/ (result' = "false" /\ pc' = "done")
  BY <1>1 DEF IInv, DoneInv, TypeOK, Goto, Fail
<1> USE DEF hostVars, configVars, foundVars, csdVars, busVars, Goto, Fail
<1>4. TypeOK'
  <2>1. resp' \in Answers /\ response' \in Answers
    BY <1>1, <1>2, <1>3 DEF IInv, TypeOK, Answers
  <2>2. pc' \in Pcs /\ result' \in {"none", "true", "false"}
    BY <1>1, <1>2, <1>3 DEF IInv, TypeOK, Pcs
  <2>3. QED
    BY <1>1, <1>2, <2>1, <2>2 DEF IInv, TypeOK
<1>5. AddressInv' /\ SizeInv'
  BY <1>1, <1>2, <1>3 DEF IInv, AddressInv, SizeInv, CountIs
<1>6. AnswerInv'
  BY <1>1, <1>2, <1>3 DEF IInv, AnswerInv, Begins, PowersUp, Identifies,
     Addresses, AsksScr, Selected
<1>7. CardInv'
  BY <1>1, <1>2, <1>3 DEF IInv, CardInv, Begins, PowersUp, Identifies,
     Addresses, AsksScr, Selected
<1>8. NoFaultInv'
  BY <1>1, <1>2, <1>3 DEF IInv, NoFaultInv, Addresses, AsksScr, Selected,
     AddressInv, CardInv
<1>9. ClockInv'
  BY <1>1, <1>2, <1>3 DEF IInv, ClockInv, Begins, PowersUp, Identifies,
     Addresses, AsksScr, Selected
<1>10. DoneInv' /\ Ready' /\ Agreed'
  BY <1>3 DEF DoneInv, Ready, Agreed
<1>11. Clocked'
  BY <1>1, <1>2, <1>3 DEF IInv, Clocked, ClockInv, Begins, PowersUp,
     Identifies, Addresses, AsksScr, Selected
<1>12. QED
  BY <1>4, <1>5, <1>6, <1>7, <1>8, <1>9, <1>10, <1>11 DEF IInv

LEMMA SendOpCondOK ==
  ASSUME IInv, SendOpCond
  PROVE  IInv'
<1>1. PICK ok \in BOOLEAN :
        /\ send_command("send_op_cond", 0, ok)
        /\ pc = "send_op_cond"
        /\ \/ /\ ok /\ response' # "op_ready"
              /\ Goto("app_op_cond")
              /\ UNCHANGED <<sdhc, voltage_1_8>>
           \/ /\ ok /\ response' = "op_ready"
              /\ sdhc' = traits.hc /\ voltage_1_8' = Offers18
              /\ Goto("voltage_switch") \/ Goto("all_send_cid")
           \/ /\ ~ok
              /\ Fail
              /\ UNCHANGED <<sdhc, voltage_1_8>>
        /\ UNCHANGED <<hostVars, configVars, rca, csdVars, sd_bus_widths>>
  BY DEF SendOpCond
<1>2. /\ resp' \in {resp, "op_ready", "op_busy"}
      /\ response' = IF ok THEN resp' ELSE response
      /\ resp' = "op_ready" => resp = "op_ready" \/ card'.state = "ready"
      /\ card' \in Card /\ card'.state \in {card.state, "ready"}
      /\ card'.rca = card.rca
      /\ faults' \in 0 .. MaxFaults
      /\ faults' = 0 => faults = 0
  <2> DEFINE k == After("send_op_cond", 0)
  <2>1. /\ card' \in {card, Refused, k}
        /\ resp' = resp \/ (card' = k /\ resp' = Answer("send_op_cond"))
        /\ response' = IF ok THEN resp' ELSE response
        /\ faults' \in 0 .. MaxFaults
        /\ faults' = 0 => faults = 0
    BY <1>1, Sent DEF IInv
  <2>2. Answer("send_op_cond") = IF PoweredUp THEN "op_ready" ELSE "op_busy"
    BY DEF Answer
  <2>3. /\ Same(card) /\ Same(Refused)
        /\ k \in Card /\ k.rca = card.rca
        /\ k.state = IF PoweredUp THEN "ready" ELSE card.state
    BY Fields DEF IInv
  <2> HIDE DEF k
  <2>4. QED
    BY <2>1, <2>2, <2>3 DEF Same
<1>3. result' = "none" \/ (result' = "false" /\ pc' = "done")
  BY <1>1 DEF IInv, DoneInv, TypeOK, Goto, Fail
<1> USE DEF hostVars, configVars, foundVars, csdVars, busVars, Goto, Fail
<1>4. TypeOK'
  <2>1. resp' \in Answers /\ response' \in Answers
    BY <1>1, <1>2, <1>3 DEF IInv, TypeOK, Answers
  <2>2. pc' \in Pcs /\ result' \in {"none", "true", "false"}
    BY <1>1, <1>2, <1>3 DEF IInv, TypeOK, Pcs
  <2>3. sdhc' \in BOOLEAN /\ voltage_1_8' \in BOOLEAN
    <3>1. traits.hc \in BOOLEAN
      BY DEF IInv, TypeOK, Cards, Traits
    <3>2. Offers18 \in BOOLEAN
      BY DEF Offers18
    <3>3. QED
      BY <1>1, <3>1, <3>2 DEF IInv, TypeOK
  <2>4. QED
    BY <1>1, <1>2, <2>1, <2>2, <2>3 DEF IInv, TypeOK
<1>5. AddressInv' /\ SizeInv'
  BY <1>1, <1>2, <1>3 DEF IInv, AddressInv, SizeInv, CountIs,
     CardInv, Begins, PowersUp
<1>6. AnswerInv'
  BY <1>1, <1>2, <1>3 DEF IInv, AnswerInv, Begins, PowersUp, Identifies,
     Addresses, AsksScr, Selected
<1>7. CardInv'
  BY <1>1, <1>2, <1>3 DEF IInv, CardInv, Begins, PowersUp, Identifies,
     Addresses, AsksScr, Selected, AnswerInv
<1>8. NoFaultInv'
  BY <1>1, <1>2, <1>3 DEF IInv, NoFaultInv, Addresses, AsksScr, Selected
<1>9. ClockInv'
  BY <1>1, <1>2, <1>3 DEF IInv, ClockInv, Begins, PowersUp, Identifies,
     Addresses, AsksScr, Selected
<1>10. DoneInv' /\ Ready' /\ Agreed'
  BY <1>3 DEF DoneInv, Ready, Agreed
<1>11. Clocked'
  BY <1>1, <1>2, <1>3 DEF IInv, Clocked, ClockInv, Begins, PowersUp,
     Identifies, Addresses, AsksScr, Selected
<1>12. QED
  BY <1>4, <1>5, <1>6, <1>7, <1>8, <1>9, <1>10, <1>11 DEF IInv

LEMMA VoltageSwitchOK ==
  ASSUME IInv, VoltageSwitch
  PROVE  IInv'
<1>1. PICK ok \in BOOLEAN :
        /\ send_command("voltage_switch", 0, ok)
        /\ pc = "voltage_switch"
        /\ \/ Goto("all_send_cid") /\ UNCHANGED enable_1_8V
           \/ Goto("device_init") /\ enable_1_8V' = FALSE
        /\ UNCHANGED <<block_size, clock, hostWidth, configVars, foundVars>>
  BY DEF VoltageSwitch
<1>2. /\ resp' \in {resp, "r1"} /\ response' \in {resp', response}
      /\ faults' = 0 => faults = 0
      /\ card' \in Card /\ card'.state = card.state
      /\ card'.rca = card.rca /\ card'.width = card.width
      /\ card'.high = card.high
      /\ faults' \in 0 .. MaxFaults
  <2>1. Answer("voltage_switch") = "r1"
    BY DEF Answer
  <2>2. /\ resp' \in {resp, Answer("voltage_switch")}
        /\ response' \in {resp', response}
        /\ faults' \in 0 .. MaxFaults
        /\ faults' = 0 => faults = 0
    BY <1>1, Sent DEF IInv
  <2>3. Same(card')
    BY <1>1, Kept DEF IInv
  <2>4. QED
    BY <2>1, <2>2, <2>3 DEF Same
<1>3. result' = "none" \/ (result' = "false" /\ pc' = "done")
  BY <1>1 DEF IInv, DoneInv, TypeOK, Goto, Fail
<1> USE DEF hostVars, configVars, foundVars, csdVars, busVars, Goto, Fail
<1>4. TypeOK'
  <2>1. resp' \in Answers /\ response' \in Answers
    BY <1>1, <1>2, <1>3 DEF IInv, TypeOK, Answers
  <2>2. pc' \in Pcs /\ result' \in {"none", "true", "false"}
    BY <1>1, <1>2, <1>3 DEF IInv, TypeOK, Pcs
  <2>3. enable_1_8V' \in BOOLEAN
    BY <1>1 DEF IInv, TypeOK
  <2>4. QED
    BY <1>1, <1>2, <2>1, <2>2, <2>3 DEF IInv, TypeOK
<1>5. AddressInv' /\ SizeInv'
  BY <1>1, <1>2, <1>3 DEF IInv, AddressInv, SizeInv, CountIs
<1>6. AnswerInv'
  BY <1>1, <1>2, <1>3 DEF IInv, AnswerInv, Begins, PowersUp, Identifies,
     Addresses, AsksScr, Selected
<1>7. CardInv'
  BY <1>1, <1>2, <1>3 DEF IInv, CardInv, Begins, PowersUp, Identifies,
     Addresses, AsksScr, Selected
<1>8. NoFaultInv'
  BY <1>1, <1>2, <1>3 DEF IInv, NoFaultInv, Addresses, AsksScr, Selected
<1>9. ClockInv'
  BY <1>1, <1>2, <1>3 DEF IInv, ClockInv, Begins, PowersUp, Identifies,
     Addresses, AsksScr, Selected
<1>10. DoneInv' /\ Ready' /\ Agreed'
  BY <1>3 DEF DoneInv, Ready, Agreed
<1>11. Clocked'
  BY <1>1, <1>2, <1>3 DEF IInv, Clocked, ClockInv, Begins, PowersUp,
     Identifies, Addresses, AsksScr, Selected
<1>12. QED
  BY <1>4, <1>5, <1>6, <1>7, <1>8, <1>9, <1>10, <1>11 DEF IInv

LEMMA AllSendCidOK ==
  ASSUME IInv, AllSendCid
  PROVE  IInv'
<1>1. PICK ok \in BOOLEAN :
        /\ send_command("all_send_cid", 0, ok)
        /\ pc = "all_send_cid"
        /\ \/ ok /\ Goto("send_relative_addr")
           \/ ~ok /\ Fail
        /\ UNCHANGED <<hostVars, configVars, foundVars>>
  BY DEF AllSendCid, Command
<1>2. /\ resp' \in {resp, "cid"} /\ response' \in {resp', response}
      /\ card' \in Card /\ card'.state \in {card.state, "ident"}
      /\ card'.rca = card.rca
      /\ faults' \in 0 .. MaxFaults
      /\ faults' = 0 => faults = 0 /\ card'.state = "ident"
  <2> DEFINE k == After("all_send_cid", 0)
  <2>1. card.state = "ready"
    BY <1>1 DEF IInv, CardInv
  <2>2. Accepts("all_send_cid", 0) /\ Answer("all_send_cid") = "cid"
    BY <2>1 DEF Accepts, Answer
  <2>3. /\ card' \in {card, Refused, k}
        /\ resp' \in {resp, Answer("all_send_cid")}
        /\ response' \in {resp', response}
        /\ faults' \in 0 .. MaxFaults
        /\ faults' = 0 => faults = 0 /\ card' = k
    BY <1>1, <2>2, Sent DEF IInv
  <2>4. /\ Same(card) /\ Same(Refused)
        /\ k \in Card /\ k.state = "ident" /\ k.rca = card.rca
    BY Fields DEF IInv
  <2> HIDE DEF k
  <2>5. QED
    BY <2>2, <2>3, <2>4 DEF Same
<1>3. result' = "none" \/ (result' = "false" /\ pc' = "done")
  BY <1>1 DEF IInv, DoneInv, TypeOK, Goto, Fail
<1> USE DEF hostVars, configVars, foundVars, csdVars, busVars, Goto, Fail
<1>4. TypeOK'
  <2>1. resp' \in Answers /\ response' \in Answers
    BY <1>1, <1>2, <1>3 DEF IInv, TypeOK, Answers
  <2>2. pc' \in Pcs /\ result' \in {"none", "true", "false"}
    BY <1>1, <1>2, <1>3 DEF IInv, TypeOK, Pcs
  <2>3. QED
    BY <1>1, <1>2, <2>1, <2>2 DEF IInv, TypeOK
<1>5. AddressInv' /\ SizeInv'
  BY <1>1, <1>2, <1>3 DEF IInv, AddressInv, SizeInv, CountIs, CardInv
<1>6. AnswerInv'
  BY <1>1, <1>2, <1>3 DEF IInv, AnswerInv, Begins, PowersUp, Identifies,
     Addresses, AsksScr, Selected
<1>7. CardInv'
  BY <1>1, <1>2, <1>3 DEF IInv, CardInv, Begins, PowersUp, Identifies,
     Addresses, AsksScr, Selected
<1>8. NoFaultInv'
  BY <1>1, <1>2, <1>3 DEF IInv, NoFaultInv, Addresses, AsksScr, Selected
<1>9. ClockInv'
  BY <1>1, <1>2, <1>3 DEF IInv, ClockInv, Begins, PowersUp, Identifies,
     Addresses, AsksScr, Selected
<1>10. DoneInv' /\ Ready' /\ Agreed'
  BY <1>3 DEF DoneInv, Ready, Agreed
<1>11. Clocked'
  BY <1>1, <1>2, <1>3 DEF IInv, Clocked, ClockInv, Begins, PowersUp,
     Identifies, Addresses, AsksScr, Selected
<1>12. QED
  BY <1>4, <1>5, <1>6, <1>7, <1>8, <1>9, <1>10, <1>11 DEF IInv

LEMMA SendRelativeAddrOK ==
  ASSUME IInv, SendRelativeAddr
  PROVE  IInv'
<1>1. PICK ok \in BOOLEAN :
        /\ send_command("send_relative_addr", 0, ok)
        /\ pc = "send_relative_addr"
        /\ \/ ok /\ Goto("send_csd")
           \/ ~ok /\ Fail
        /\ rca' \in IF pc' = "done" THEN {rca}
                    ELSE IF response' = "rca" THEN {CardRca}
                    ELSE {0, OtherRca}
        /\ UNCHANGED <<hostVars, configVars, sdhc, voltage_1_8, csdVars,
                       sd_bus_widths>>
  BY DEF SendRelativeAddr, Command
<1>2. /\ resp' \in {resp, "rca"} /\ response' = IF ok THEN resp' ELSE response
      /\ resp' = "rca" => card'.state = "stby"
      /\ card' \in Card /\ card'.state \in {card.state, "stby"}
      /\ card'.rca = IF card'.state = "stby" THEN CardRca ELSE 0
      /\ faults' \in 0 .. MaxFaults
      /\ faults' = 0 => faults = 0 /\ card'.state = "stby" /\ resp' = "rca"
  <2> DEFINE k == After("send_relative_addr", 0)
  <2>1. /\ card.state \in {"ready", "ident"} /\ card.rca = 0
        /\ resp # "rca"
        /\ faults = 0 => card.state = "ident"
    BY <1>1 DEF IInv, CardInv, AddressInv, NoFaultInv, AnswerInv
  <2>2. /\ card.state = "ident" => Accepts("send_relative_addr", 0)
        /\ Answer("send_relative_addr") = "rca"
    BY DEF Accepts, Answer
  <2>3. /\ card' \in {card, Refused, k}
        /\ \/ resp' = resp
           \/ card' = k /\ resp' = Answer("send_relative_addr")
        /\ response' = IF ok THEN resp' ELSE response
        /\ faults' \in 0 .. MaxFaults
        /\ faults' = 0 =>
              /\ faults = 0
              /\ Accepts("send_relative_addr", 0) =>
                    card' = k /\ resp' = Answer("send_relative_addr")
    BY <1>1, Sent DEF IInv
  <2>4. /\ Same(card) /\ Same(Refused)
        /\ k \in Card /\ k.state = "stby" /\ k.rca = CardRca
    BY Fields DEF IInv
  <2> HIDE DEF k
  <2>5. QED
    BY <2>1, <2>2, <2>3, <2>4 DEF Same
<1>3. result' = "none" \/ (result' = "false" /\ pc' = "done")
  BY <1>1 DEF IInv, DoneInv, TypeOK, Goto, Fail
<1>13. pc' # "done" /\ rca' = CardRca => response' = "rca"
  BY <1>1, SdInitAssumption DEF SdInitAssumption
<1> USE DEF hostVars, configVars, foundVars, csdVars, busVars, Goto, Fail
<1>4. TypeOK'
  <2>1. resp' \in Answers /\ response' \in Answers
    BY <1>1, <1>2, <1>3, <1>13 DEF IInv, TypeOK, Answers
  <2>2. pc' \in Pcs /\ result' \in {"none", "true", "false"}
    BY <1>1, <1>2, <1>3, <1>13 DEF IInv, TypeOK, Pcs
  <2>3. QED
    BY <1>1, <1>2, <2>1, <2>2 DEF IInv, TypeOK
<1>5. AddressInv' /\ SizeInv'
  BY <1>1, <1>2, <1>3, <1>13 DEF IInv, AddressInv, SizeInv, CountIs, CardInv
<1>6. AnswerInv'
  BY <1>1, <1>2, <1>3, <1>13 DEF IInv, AnswerInv, Begins, PowersUp,
     Identifies, Addresses, AsksScr, Selected
<1>7. CardInv'
  BY <1>1, <1>2, <1>3, <1>13 DEF IInv, CardInv, Begins, PowersUp, Identifies,
     Addresses, AsksScr, Selected
<1>8. NoFaultInv'
  BY <1>1, <1>2, <1>3, <1>13 DEF IInv, NoFaultInv, Addresses, AsksScr, Selected
<1>9. ClockInv'
  BY <1>1, <1>2, <1>3, <1>13 DEF IInv, ClockInv, Begins, PowersUp, Identifies,
     Addresses, AsksScr, Selected
<1>10. DoneInv' /\ Ready' /\ Agreed'
  BY <1>3 DEF DoneInv, Ready, Agreed
<1>11. Clocked'
  BY <1>1, <1>2, <1>3, <1>13 DEF IInv, Clocked, ClockInv, Begins, PowersUp,
     Identifies, Addresses, AsksScr, Selected
<1>12. QED
  BY <1>4, <1>5, <1>6, <1>7, <1>8, <1>9, <1>10, <1>11 DEF IInv

LEMMA SendCsdOK ==
  ASSUME IInv, SendCsd
  PROVE  IInv'
<1>1. PICK ok \in BOOLEAN :
        /\ send_command("send_csd", rca, ok)
        /\ pc = "send_csd"
        /\ \/ ok /\ Goto("clock_normal")
           \/ ~ok /\ Fail
        /\ csd' = IF pc' = "done" THEN csd ELSE response'
        /\ register' \in IF csd' = "csd" THEN Registers ELSE {register}
        /\ block_count' = IF csd' = "csd" THEN csize(Bytes(register'))
                          ELSE Nothing
        /\ block_size' = IF pc' = "done" THEN block_size
                         ELSE IF csd' = "csd" THEN 2^(Bytes(register')[9])
                         ELSE 0
        /\ UNCHANGED <<enable_1_8V, clock, hostWidth, configVars, sdhc,
                       voltage_1_8, rca, sd_bus_widths>>
  BY DEF SendCsd, Command
<1>2. /\ resp' \in {resp, "csd"} /\ response' = IF ok THEN resp' ELSE response
      /\ faults' = 0 => faults = 0 /\ resp' = "csd"
      /\ card' \in Card /\ card'.state = card.state
      /\ card'.rca = card.rca /\ card'.width = card.width
      /\ card'.high = card.high
      /\ faults' \in 0 .. MaxFaults
  <2>1. faults = 0 => card.state = "stby" /\ card.rca = rca
    BY <1>1 DEF IInv, NoFaultInv, AddressInv, Addresses
  <2>2. /\ card.state = "stby" /\ card.rca = rca => Accepts("send_csd", rca)
        /\ Answer("send_csd") = "csd"
    BY DEF Accepts, Answer
  <2>3. /\ resp' \in {resp, Answer("send_csd")}
        /\ response' = IF ok THEN resp' ELSE response
        /\ faults' \in 0 .. MaxFaults
        /\ faults' = 0 =>
              /\ faults = 0
              /\ Accepts("send_csd", rca) => resp' = Answer("send_csd")
    BY <1>1, Sent DEF IInv
  <2>4. Same(card')
    BY <1>1, Kept DEF IInv
  <2>5. QED
    BY <2>1, <2>2, <2>3, <2>4 DEF Same
<1>3. result' = "none" \/ (result' = "false" /\ pc' = "done")
  BY <1>1 DEF IInv, DoneInv, TypeOK, Goto, Fail
<1>14. /\ register' \in Register \cup {Unread}
       /\ block_count' \in Counts /\ block_size' \in Sizes
       /\ csd' = "csd" => CountIs'
  <2>1. /\ traits \in Cards /\ sdhc = traits.hc
        /\ register \in Register \cup {Unread} /\ block_size \in Sizes
    BY <1>1 DEF IInv, TypeOK, CardInv, Addresses
  <2>2. CASE csd' = "csd"
    <3>1. register' \in Registers /\ block_count' = csize(Bytes(register'))
      BY <1>1, <2>2
    <3>2. /\ csize(Bytes(register')) \in Counts
          /\ csize(Bytes(register')).n
               = IF register'.c_size = 2^22 - 1 THEN 0
                 ELSE register'.c_size + 1
          /\ csize(Bytes(register')).shift
               = IF traits.hc THEN 10 ELSE register'.mult + 2
          /\ Bytes(register')[9] = register'.len
      BY <2>1, <3>1, CardSize
    <3>3. register' \in Register
      BY <3>1 DEF Registers
    <3>4. block_size' \in {block_size, 2^(register'.len)}
      BY <1>1, <2>2, <3>2
    <3>5. register'.len \in Lens \cup {9}
      BY <3>3 DEF Register
    <3>6. block_size' \in Sizes
      BY <2>1, <3>4, <3>5, SizesOK
    <3>7. CountIs'
      <4>1. traits' = traits
        BY <1>1, Zenon DEF configVars
      <4>2. QED
        BY <3>1, <3>2, <4>1 DEF CountIs
    <3>8. block_count' \in Counts
      BY <3>1, <3>2
    <3>9. QED
      BY <3>3, <3>6, <3>7, <3>8
  <2>3. CASE csd' # "csd"
    <3>1. 0 \in 0 .. 2^22 - 1 /\ 0 \in 0 .. 10
      OBVIOUS
    <3>2. Nothing \in Counts
      BY <3>1, SizeFields, Zenon DEF Nothing
    <3>3. QED
      BY <1>1, <2>1, <2>3, <3>2, SizesOK
  <2>4. QED
    BY <2>2, <2>3
<1> USE DEF hostVars, configVars, foundVars, csdVars, busVars, Goto, Fail
<1>4. TypeOK'
  <2>1. resp' \in Answers /\ response' \in Answers
    BY <1>1, <1>2, <1>3 DEF IInv, TypeOK, Answers
  <2>2. pc' \in Pcs /\ result' \in {"none", "true", "false"}
    BY <1>1, <1>2, <1>3 DEF IInv, TypeOK, Pcs
  <2>3. csd' \in Answers
    <3>1. csd' \in {csd, response'} /\ csd \in Answers
      BY <1>1 DEF IInv, TypeOK
    <3>2. QED
      BY <2>1, <3>1
  <2>4. UNCHANGED <<enable_1_8V, clock, hostWidth, enable_high_speed,
                    host_version, traits, sdhc, voltage_1_8, rca,
                    sd_bus_widths>>
    BY <1>1
  <2>5. QED
    BY <1>2, <1>14, <2>1, <2>2, <2>3, <2>4 DEF IInv, TypeOK
<1>5. AddressInv' /\ SizeInv'
  <2>1. AddressInv'
    BY <1>2 DEF IInv, AddressInv
  <2>2. SizeInv'
    BY <1>14 DEF SizeInv
  <2>3. QED
    BY <2>1, <2>2
<1>6. AnswerInv'
  BY <1>1, <1>2, <1>3 DEF IInv, AnswerInv, Begins, PowersUp, Identifies,
     Addresses, AsksScr, Selected
<1>7. CardInv'
  BY <1>1, <1>2, <1>3 DEF IInv, CardInv, Begins, PowersUp, Identifies,
     Addresses, AsksScr, Selected
<1>8. NoFaultInv'
  BY <1>1, <1>2, <1>3 DEF IInv, NoFaultInv, Addresses, AsksScr, Selected
<1>9. ClockInv'
  BY <1>1, <1>2, <1>3 DEF IInv, ClockInv, Begins, PowersUp, Identifies,
     Addresses, AsksScr, Selected
<1>10. DoneInv' /\ Ready' /\ Agreed'
  BY <1>3 DEF DoneInv, Ready, Agreed
<1>11. Clocked'
  BY <1>1, <1>2, <1>3 DEF IInv, Clocked, ClockInv, Begins, PowersUp,
     Identifies, Addresses, AsksScr, Selected
<1>12. QED
  BY <1>4, <1>5, <1>6, <1>7, <1>8, <1>9, <1>10, <1>11 DEF IInv

LEMMA SelectCardOK ==
  ASSUME IInv, SelectCard
  PROVE  IInv'
<1>1. PICK ok \in BOOLEAN :
        /\ send_command("select_card", rca, ok)
        /\ pc = "select_card"
        /\ \/ ok /\ Goto("app_scr")
           \/ ~ok /\ Fail
        /\ block_size' = IF pc' = "done" THEN block_size ELSE 8
        /\ UNCHANGED <<enable_1_8V, clock, hostWidth, configVars, foundVars>>
  BY DEF SelectCard, Command
<1>2. /\ resp' \in {resp, "r1"} /\ response' \in {resp', response}
      /\ card' \in Card /\ card'.rca = card.rca
      /\ \/ card'.state = card.state
         \/ card.state = "stby" /\ card.rca = rca /\ card'.state = "tran"
      /\ faults' \in 0 .. MaxFaults
      /\ faults' = 0 => faults = 0 /\ card'.state = "tran"
  <2> DEFINE k == After("select_card", rca)
  <2>1. faults = 0 => card.state = "stby" /\ card.rca = rca
    BY <1>1 DEF IInv, NoFaultInv, AddressInv, Addresses
  <2>2. /\ Accepts("select_card", rca) <=> card.state = "stby" /\ card.rca = rca
        /\ Answer("select_card") = "r1"
    BY DEF Accepts, Answer
  <2>3. /\ \/ card' \in {card, Refused}
           \/ Accepts("select_card", rca) /\ card' = k
        /\ resp' \in {resp, Answer("select_card")}
        /\ response' \in {resp', response}
        /\ faults' \in 0 .. MaxFaults
        /\ faults' = 0 =>
              /\ faults = 0
              /\ Accepts("select_card", rca) => card' = k
    BY <1>1, Sent DEF IInv
  <2>4. /\ Same(card) /\ Same(Refused)
        /\ k \in Card /\ k.state = "tran" /\ k.rca = card.rca
    BY Fields DEF IInv
  <2> HIDE DEF k
  <2>5. QED
    BY <2>1, <2>2, <2>3, <2>4 DEF Same
<1>3. result' = "none" \/ (result' = "false" /\ pc' = "done")
  BY <1>1 DEF IInv, DoneInv, TypeOK, Goto, Fail
<1> USE DEF hostVars, configVars, foundVars, csdVars, busVars, Goto, Fail
<1>4. TypeOK'
  <2>1. resp' \in Answers /\ response' \in Answers
    BY <1>1, <1>2, <1>3 DEF IInv, TypeOK, Answers
  <2>2. pc' \in Pcs /\ result' \in {"none", "true", "false"}
    BY <1>1, <1>2, <1>3 DEF IInv, TypeOK, Pcs
  <2>3. block_size' \in Sizes
    BY <1>1, SizesOK DEF IInv, TypeOK
  <2>4. QED
    BY <1>1, <1>2, <2>1, <2>2, <2>3 DEF IInv, TypeOK
<1>5. AddressInv' /\ SizeInv'
  BY <1>1, <1>2, <1>3 DEF IInv, AddressInv, SizeInv, CountIs, CardInv
<1>6. AnswerInv'
  BY <1>1, <1>2, <1>3 DEF IInv, AnswerInv, Begins, PowersUp, Identifies,
     Addresses, AsksScr, Selected
<1>7. CardInv'
  BY <1>1, <1>2, <1>3 DEF IInv, CardInv, Begins, PowersUp, Identifies,
     Addresses, AsksScr, Selected, AddressInv
<1>8. NoFaultInv'
  BY <1>1, <1>2, <1>3 DEF IInv, NoFaultInv, Addresses, AsksScr, Selected
<1>9. ClockInv'
  BY <1>1, <1>2, <1>3 DEF IInv, ClockInv, Begins, PowersUp, Identifies,
     Addresses, AsksScr, Selected
<1>10. DoneInv' /\ Ready' /\ Agreed'
  BY <1>3 DEF DoneInv, Ready, Agreed
<1>11. Clocked'
  BY <1>1, <1>2, <1>3 DEF IInv, Clocked, ClockInv, Begins, PowersUp,
     Identifies, Addresses, AsksScr, Selected
<1>12. QED
  BY <1>4, <1>5, <1>6, <1>7, <1>8, <1>9, <1>10, <1>11 DEF IInv

LEMMA AppScrOK ==
  ASSUME IInv, AppScr
  PROVE  IInv'
<1>1. PICK ok \in BOOLEAN :
        /\ send_command("app_cmd", rca, ok)
        /\ pc = "app_scr"
        /\ Goto("send_scr") \/ Fail
        /\ UNCHANGED <<hostVars, configVars, foundVars>>
  BY DEF AppScr, AppCommand
<1>2. /\ resp' \in {resp, "r1"} /\ response' \in {resp', response}
      /\ faults' = 0 =>
            /\ faults = 0
            /\ card.state = "tran" /\ card.rca = rca => card'.app
      /\ card' \in Card /\ card'.state = card.state
      /\ card'.rca = card.rca /\ card'.width = card.width
      /\ card'.high = card.high
      /\ faults' \in 0 .. MaxFaults
  <2>1. /\ resp' \in {resp, "r1"} /\ response' \in {resp', response}
        /\ faults' \in 0 .. MaxFaults
        /\ faults' = 0 =>
              /\ faults = 0
              /\ card.state = "tran" /\ card.rca = rca
                    => card' = After("app_cmd", rca)
    <3>1. Answer("app_cmd") = "r1"
      BY DEF Answer
    <3>2. card.state = "tran" /\ card.rca = rca => Accepts("app_cmd", rca)
      BY DEF Accepts
    <3>3. /\ resp' \in {resp, Answer("app_cmd")}
          /\ response' \in {resp', response}
          /\ faults' \in 0 .. MaxFaults
          /\ faults' = 0 =>
                /\ faults = 0
                /\ Accepts("app_cmd", rca) => card' = After("app_cmd", rca)
      BY <1>1, Sent DEF IInv
    <3>4. QED
      BY <3>1, <3>2, <3>3
  <2>2. After("app_cmd", rca).app
    BY Fields DEF IInv
  <2>3. Same(card')
    BY <1>1, Kept DEF IInv
  <2>4. QED
    BY <2>1, <2>2, <2>3 DEF Same
<1>3. result' = "none" \/ (result' = "false" /\ pc' = "done")
  BY <1>1 DEF IInv, DoneInv, TypeOK, Goto, Fail
<1> USE DEF hostVars, configVars, foundVars, csdVars, busVars, Goto, Fail
<1>4. TypeOK'
  <2>1. resp' \in Answers /\ response' \in Answers
    BY <1>1, <1>2, <1>3 DEF IInv, TypeOK, Answers
  <2>2. pc' \in Pcs /\ result' \in {"none", "true", "false"}
    BY <1>1, <1>2, <1>3 DEF IInv, TypeOK, Pcs
  <2>3. QED
    BY <1>1, <1>2, <2>1, <2>2 DEF IInv, TypeOK
<1>5. AddressInv' /\ SizeInv'
  BY <1>1, <1>2, <1>3 DEF IInv, AddressInv, SizeInv, CountIs
<1>6. AnswerInv'
  BY <1>1, <1>2, <1>3 DEF IInv, AnswerInv, Begins, PowersUp, Identifies,
     Addresses, AsksScr, Selected
<1>7. CardInv'
  BY <1>1, <1>2, <1>3 DEF IInv, CardInv, Begins, PowersUp, Identifies,
     Addresses, AsksScr, Selected
<1>8. NoFaultInv'
  BY <1>1, <1>2, <1>3 DEF IInv, NoFaultInv, Addresses, AsksScr, Selected,
     AddressInv, CardInv
<1>9. ClockInv'
  BY <1>1, <1>2, <1>3 DEF IInv, ClockInv, Begins, PowersUp, Identifies,
     Addresses, AsksScr, Selected
<1>10. DoneInv' /\ Ready' /\ Agreed'
  BY <1>3 DEF DoneInv, Ready, Agreed
<1>11. Clocked'
  BY <1>1, <1>2, <1>3 DEF IInv, Clocked, ClockInv, Begins, PowersUp,
     Identifies, Addresses, AsksScr, Selected
<1>12. QED
  BY <1>4, <1>5, <1>6, <1>7, <1>8, <1>9, <1>10, <1>11 DEF IInv

LEMMA SendScrOK ==
  ASSUME IInv, SendScr
  PROVE  IInv'
<1>1. PICK ok \in BOOLEAN :
        /\ send_command("send_scr", 0, ok)
        /\ pc = "send_scr"
        /\ \/ /\ ok
              /\ sd_bus_widths' = traits.width
              /\ \/ Goto("switch_query") /\ block_size' = 64
                 \/ BusWidth(sd_bus_widths')
           \/ /\ ~ok
              /\ Fail
              /\ UNCHANGED <<sd_bus_widths, block_size>>
        /\ UNCHANGED <<enable_1_8V, clock, hostWidth, configVars, sdhc,
                       voltage_1_8, rca, csdVars>>
  BY DEF SendScr
<1>2. /\ resp' \in {resp, "r1"} /\ response' \in {resp', response}
      /\ ok => card.state = "tran" /\ hostWidth = card.width
      /\ faults' = 0 => faults = 0
      /\ card' \in Card /\ card'.state = card.state
      /\ card'.rca = card.rca /\ card'.width = card.width
      /\ card'.high = card.high
      /\ faults' \in 0 .. MaxFaults
  <2>1. /\ Accepts("send_scr", 0) => card.state = "tran"
        /\ Answer("send_scr") = "r1" /\ isdata("send_scr")
    BY DEF Accepts, Answer, isdata
  <2>2. /\ resp' \in {resp, Answer("send_scr")}
        /\ response' \in {resp', response}
        /\ ok /\ isdata("send_scr") =>
              Accepts("send_scr", 0) /\ hostWidth = card.width
        /\ faults' \in 0 .. MaxFaults
        /\ faults' = 0 => faults = 0
    BY <1>1, Sent DEF IInv
  <2>3. Same(card')
    BY <1>1, Kept DEF IInv
  <2>4. QED
    BY <2>1, <2>2, <2>3 DEF Same
<1>3. pc = "send_scr" /\ result = "none"
  BY <1>1 DEF IInv, DoneInv, TypeOK
<1> USE DEF hostVars, configVars, foundVars, csdVars, busVars, Goto, Fail,
            BusWidth, Finish
<1>4. TypeOK'
  <2>1. resp' \in Answers /\ response' \in Answers
    BY <1>1, <1>2, <1>3 DEF IInv, TypeOK, Answers
  <2>2. pc' \in Pcs /\ result' \in {"none", "true", "false"}
    BY <1>1, <1>2, <1>3 DEF IInv, TypeOK, Pcs
  <2>3. block_size' \in Sizes
    BY <1>1, SizesOK DEF IInv, TypeOK
  <2>4. sd_bus_widths' \in {1, 4}
    <3>1. traits.width \in {1, 4}
      BY DEF IInv, TypeOK, Cards, Traits
    <3>2. QED
      BY <1>1, <3>1 DEF IInv, TypeOK
  <2>5. QED
    BY <1>1, <1>2, <2>1, <2>2, <2>3, <2>4 DEF IInv, TypeOK
<1>5. AddressInv' /\ SizeInv'
  BY <1>1, <1>2, <1>3 DEF IInv, AddressInv, SizeInv, CountIs
<1>6. AnswerInv'
  BY <1>1, <1>2, <1>3 DEF IInv, AnswerInv, Begins, PowersUp, Identifies,
     Addresses, AsksScr, Selected
<1>7. CardInv'
  BY <1>1, <1>2, <1>3 DEF IInv, CardInv, Begins, PowersUp, Identifies,
     Addresses, AsksScr, Selected
<1>8. NoFaultInv'
  BY <1>1, <1>2, <1>3 DEF IInv, NoFaultInv, Addresses, AsksScr, Selected
<1>9. ClockInv'
  BY <1>1, <1>2, <1>3 DEF IInv, ClockInv, Begins, PowersUp, Identifies,
     Addresses, AsksScr, Selected
<1>10. DoneInv' /\ Ready' /\ Agreed'
  BY <1>1, <1>2, <1>3 DEF IInv, DoneInv, Ready, Agreed, AddressInv, CardInv,
     NoFaultInv, AsksScr, Selected
<1>11. Clocked'
  BY <1>1, <1>2, <1>3 DEF IInv, Clocked, ClockInv, Begins, PowersUp,
     Identifies, Addresses, AsksScr, Selected
<1>12. QED
  BY <1>4, <1>5, <1>6, <1>7, <1>8, <1>9, <1>10, <1>11 DEF IInv

LEMMA SwitchQueryOK ==
  ASSUME IInv, SwitchQuery
  PROVE  IInv'
<1>1. PICK ok \in BOOLEAN :
        /\ send_command("switch_func", 0, ok)
        /\ pc = "switch_query"
        /\ \/ /\ ok /\ traits.fast # "no"
              /\ Goto("switch_func") /\ UNCHANGED block_size
           \/ ok /\ BusWidth(sd_bus_widths)
           \/ ~ok /\ Fail /\ UNCHANGED block_size
        /\ UNCHANGED <<enable_1_8V, clock, hostWidth, configVars, foundVars>>
  BY DEF SwitchQuery
<1>2. /\ resp' \in {resp, "r1"} /\ response' \in {resp', response}
      /\ card' \in Card /\ card'.state = card.state
      /\ card'.rca = card.rca /\ card'.width = card.width
      /\ card.high => card'.high
      /\ faults' \in 0 .. MaxFaults
      /\ faults' = 0 => faults = 0
  <2> DEFINE k == After("switch_func", 0)
  <2>1. Answer("switch_func") = "r1" /\ isdata("switch_func")
    BY DEF Answer, isdata
  <2>2. /\ card' \in {card, Refused, k}
        /\ resp' \in {resp, Answer("switch_func")}
        /\ response' \in {resp', response}
        /\ ok /\ isdata("switch_func") => card' = k
        /\ faults' \in 0 .. MaxFaults
        /\ faults' = 0 => faults = 0
    BY <1>1, Sent DEF IInv
  <2>3. /\ Same(card) /\ Same(Refused)
        /\ k \in Card /\ k.state = card.state /\ k.rca = card.rca
        /\ k.width = card.width
        /\ k.high = (card.high \/ (0 = 1 /\ traits.fast = "switches"))
    BY Fields DEF IInv
  <2> HIDE DEF k
  <2>4. QED
    BY <2>1, <2>2, <2>3 DEF Same
<1>3. pc = "switch_query" /\ result = "none"
  BY <1>1 DEF IInv, DoneInv, TypeOK
<1> USE DEF hostVars, configVars, foundVars, csdVars, busVars, Goto, Fail,
            BusWidth, Finish
<1>4. TypeOK'
  <2>1. resp' \in Answers /\ response' \in Answers
    BY <1>1, <1>2, <1>3 DEF IInv, TypeOK, Answers
  <2>2. pc' \in Pcs /\ result' \in {"none", "true", "false"}
    BY <1>1, <1>2, <1>3 DEF IInv, TypeOK, Pcs
  <2>3. block_size' \in Sizes
    BY <1>1, SizesOK DEF IInv, TypeOK, BusWidth, Finish
  <2>4. QED
    BY <1>1, <1>2, <2>1, <2>2, <2>3 DEF IInv, TypeOK
<1>5. AddressInv' /\ SizeInv'
  BY <1>1, <1>2, <1>3 DEF IInv, AddressInv, SizeInv, CountIs
<1>6. AnswerInv'
  BY <1>1, <1>2, <1>3 DEF IInv, AnswerInv, Begins, PowersUp, Identifies,
     Addresses, AsksScr, Selected
<1>7. CardInv'
  BY <1>1, <1>2, <1>3 DEF IInv, CardInv, Begins, PowersUp, Identifies,
     Addresses, AsksScr, Selected
<1>8. NoFaultInv'
  BY <1>1, <1>2, <1>3 DEF IInv, NoFaultInv, Addresses, AsksScr, Selected
<1>9. ClockInv'
  BY <1>1, <1>2, <1>3 DEF IInv, ClockInv, Begins, PowersUp, Identifies,
     Addresses, AsksScr, Selected
<1>10. DoneInv' /\ Ready' /\ Agreed'
  BY <1>1, <1>2, <1>3 DEF IInv, DoneInv, Ready, Agreed, AddressInv, CardInv,
     NoFaultInv, AsksScr, Selected
<1>11. Clocked'
  BY <1>1, <1>2, <1>3 DEF IInv, Clocked, ClockInv, Begins, PowersUp,
     Identifies, Addresses, AsksScr, Selected
<1>12. QED
  BY <1>4, <1>5, <1>6, <1>7, <1>8, <1>9, <1>10, <1>11 DEF IInv

LEMMA SwitchFuncOK ==
  ASSUME IInv, SwitchFunc
  PROVE  IInv'
<1>1. PICK ok \in BOOLEAN :
        /\ send_command("switch_func", 1, ok)
        /\ pc = "switch_func"
        /\ \/ ok /\ Goto("clock_high_speed")
           \/ ~ok /\ Fail
        /\ UNCHANGED <<hostVars, configVars, foundVars>>
  BY DEF SwitchFunc, Command
<1>2. /\ resp' \in {resp, "r1"} /\ response' \in {resp', response}
      /\ card' \in Card /\ card'.state = card.state
      /\ card'.rca = card.rca /\ card'.width = card.width
      /\ card.high => card'.high
      /\ ok /\ traits.fast = "switches" => card'.high
      /\ faults' \in 0 .. MaxFaults
      /\ faults' = 0 => faults = 0
  <2> DEFINE k == After("switch_func", 1)
  <2>1. Answer("switch_func") = "r1" /\ isdata("switch_func")
    BY DEF Answer, isdata
  <2>2. /\ card' \in {card, Refused, k}
        /\ resp' \in {resp, Answer("switch_func")}
        /\ response' \in {resp', response}
        /\ ok /\ isdata("switch_func") => card' = k
        /\ faults' \in 0 .. MaxFaults
        /\ faults' = 0 => faults = 0
    BY <1>1, Sent DEF IInv
  <2>3. /\ Same(card) /\ Same(Refused)
        /\ k \in Card /\ k.state = card.state /\ k.rca = card.rca
        /\ k.width = card.width
        /\ k.high = (card.high \/ (1 = 1 /\ traits.fast = "switches"))
    BY Fields DEF IInv
  <2> HIDE DEF k
  <2>4. QED
    BY <2>1, <2>2, <2>3 DEF Same
<1>3. result' = "none" \/ (result' = "false" /\ pc' = "done")
  BY <1>1 DEF IInv, DoneInv, TypeOK, Goto, Fail
<1> USE DEF hostVars, configVars, foundVars, csdVars, busVars, Goto, Fail
<1>4. TypeOK'
  <2>1. resp' \in Answers /\ response' \in Answers
    BY <1>1, <1>2, <1>3 DEF IInv, TypeOK, Answers
  <2>2. pc' \in Pcs /\ result' \in {"none", "true", "false"}
    BY <1>1, <1>2, <1>3 DEF IInv, TypeOK, Pcs
  <2>3. QED
    BY <1>1, <1>2, <2>1, <2>2 DEF IInv, TypeOK
<1>5. AddressInv' /\ SizeInv'
  BY <1>1, <1>2, <1>3 DEF IInv, AddressInv, SizeInv, CountIs
<1>6. AnswerInv'
  BY <1>1, <1>2, <1>3 DEF IInv, AnswerInv, Begins, PowersUp, Identifies,
     Addresses, AsksScr, Selected
<1>7. CardInv'
  BY <1>1, <1>2, <1>3 DEF IInv, CardInv, Begins, PowersUp, Identifies,
     Addresses, AsksScr, Selected
<1>8. NoFaultInv'
  BY <1>1, <1>2, <1>3 DEF IInv, NoFaultInv, Addresses, AsksScr, Selected
<1>9. ClockInv'
  BY <1>1, <1>2, <1>3 DEF IInv, ClockInv, Begins, PowersUp, Identifies,
     Addresses, AsksScr, Selected, TypeOK, Cards, Traits
<1>10. DoneInv' /\ Ready' /\ Agreed'
  BY <1>3 DEF DoneInv, Ready, Agreed
<1>11. Clocked'
  BY <1>1, <1>2, <1>3 DEF IInv, Clocked, ClockInv, Begins, PowersUp,
     Identifies, Addresses, AsksScr, Selected
<1>12. QED
  BY <1>4, <1>5, <1>6, <1>7, <1>8, <1>9, <1>10, <1>11 DEF IInv

LEMMA AppBusWidthOK ==
  ASSUME IInv, AppBusWidth
  PROVE  IInv'
<1>1. PICK ok \in BOOLEAN :
        /\ send_command("app_cmd", rca, ok)
        /\ pc = "app_bus_width"
        /\ Goto("set_bus_width") \/ Fail
        /\ UNCHANGED <<hostVars, configVars, foundVars>>
  BY DEF AppBusWidth, AppCommand
<1>2. /\ resp' \in {resp, "r1"} /\ response' \in {resp', response}
      /\ faults' = 0 =>
            /\ faults = 0
            /\ card.state = "tran" /\ card.rca = rca => card'.app
      /\ card' \in Card /\ card'.state = card.state
      /\ card'.rca = card.rca /\ card'.width = card.width
      /\ card'.high = card.high
      /\ faults' \in 0 .. MaxFaults
  <2>1. /\ resp' \in {resp, "r1"} /\ response' \in {resp', response}
        /\ faults' \in 0 .. MaxFaults
        /\ faults' = 0 =>
              /\ faults = 0
              /\ card.state = "tran" /\ card.rca = rca
                    => card' = After("app_cmd", rca)
    <3>1. Answer("app_cmd") = "r1"
      BY DEF Answer
    <3>2. card.state = "tran" /\ card.rca = rca => Accepts("app_cmd", rca)
      BY DEF Accepts
    <3>3. /\ resp' \in {resp, Answer("app_cmd")}
          /\ response' \in {resp', response}
          /\ faults' \in 0 .. MaxFaults
          /\ faults' = 0 =>
                /\ faults = 0
                /\ Accepts("app_cmd", rca) => card' = After("app_cmd", rca)
      BY <1>1, Sent DEF IInv
    <3>4. QED
      BY <3>1, <3>2, <3>3
  <2>2. After("app_cmd", rca).app
    BY Fields DEF IInv
  <2>3. Same(card')
    BY <1>1, Kept DEF IInv
  <2>4. QED
    BY <2>1, <2>2, <2>3 DEF Same
<1>3. result' = "none" \/ (result' = "false" /\ pc' = "done")
  BY <1>1 DEF IInv, DoneInv, TypeOK, Goto, Fail
<1> USE DEF hostVars, configVars, foundVars, csdVars, busVars, Goto, Fail
<1>4. TypeOK'
  <2>1. resp' \in Answers /\ response' \in Answers
    BY <1>1, <1>2, <1>3 DEF IInv, TypeOK, Answers
  <2>2. pc' \in Pcs /\ result' \in {"none", "true", "false"}
    BY <1>1, <1>2, <1>3 DEF IInv, TypeOK, Pcs
  <2>3. QED
    BY <1>1, <1>2, <2>1, <2>2 DEF IInv, TypeOK
<1>5. AddressInv' /\ SizeInv'
  BY <1>1, <1>2, <1>3 DEF IInv, AddressInv, SizeInv, CountIs
<1>6. AnswerInv'
  BY <1>1, <1>2, <1>3 DEF IInv, AnswerInv, Begins, PowersUp, Identifies,
     Addresses, AsksScr, Selected
<1>7. CardInv'
  BY <1>1, <1>2, <1>3 DEF IInv, CardInv, Begins, PowersUp, Identifies,
     Addresses, AsksScr, Selected
<1>8. NoFaultInv'
  BY <1>1, <1>2, <1>3 DEF IInv, NoFaultInv, Addresses, AsksScr, Selected,
     AddressInv, CardInv
<1>9. ClockInv'
  BY <1>1, <1>2, <1>3 DEF IInv, ClockInv, Begins, PowersUp, Identifies,
     Addresses, AsksScr, Selected
<1>10. DoneInv' /\ Ready' /\ Agreed'
  BY <1>3 DEF DoneInv, Ready, Agreed
<1>11. Clocked'
  BY <1>1, <1>2, <1>3 DEF IInv, Clocked, ClockInv, Begins, PowersUp,
     Identifies, Addresses, AsksScr, Selected
<1>12. QED
  BY <1>4, <1>5, <1>6, <1>7, <1>8, <1>9, <1>10, <1>11 DEF IInv

LEMMA SetBusWidthOK ==
  ASSUME IInv, SetBusWidth
  PROVE  IInv'
<1>1. PICK ok \in BOOLEAN :
        /\ send_command("set_bus_width", rca, ok)
        /\ pc = "set_bus_width"
        /\ \/ ok /\ hostWidth' = 4 /\ Finish
           \/ ~ok /\ Fail /\ UNCHANGED <<hostWidth, block_size>>
        /\ UNCHANGED <<enable_1_8V, clock, configVars, foundVars>>
  BY DEF SetBusWidth
<1>2. /\ resp' \in {resp, "r1"} /\ response' \in {resp', response}
      /\ card' \in Card /\ card'.state = card.state
      /\ card'.rca = card.rca /\ card'.high = card.high
      /\ faults' \in 0 .. MaxFaults
      /\ faults' = 0 => faults = 0 /\ card'.width = 4
  <2> DEFINE k == After("set_bus_width", rca)
  <2>1. card.state = "tran" /\ (faults = 0 => card.app)
    BY <1>1 DEF IInv, CardInv, NoFaultInv, Selected
  <2>2. Accepts("set_bus_width", rca) /\ Answer("set_bus_width") = "r1"
    BY <2>1 DEF Accepts, Answer
  <2>3. /\ card' \in {card, Refused, k}
        /\ resp' \in {resp, Answer("set_bus_width")}
        /\ response' \in {resp', response}
        /\ faults' \in 0 .. MaxFaults
        /\ faults' = 0 => faults = 0 /\ card' = k
    BY <1>1, <2>2, Sent DEF IInv
  <2>4. /\ Same(card) /\ Same(Refused)
        /\ k \in Card /\ k.state = card.state /\ k.rca = card.rca
        /\ k.width = IF card.app THEN 4 ELSE card.width
        /\ k.high = card.high
    BY Fields DEF IInv
  <2> HIDE DEF k
  <2>5. QED
    BY <2>1, <2>2, <2>3, <2>4 DEF Same
<1>3. pc = "set_bus_width" /\ result = "none"
  BY <1>1 DEF IInv, DoneInv, TypeOK
<1> USE DEF hostVars, configVars, foundVars, csdVars, busVars, Goto, Fail,
            BusWidth, Finish
<1>4. TypeOK'
  <2>1. resp' \in Answers /\ response' \in Answers
    BY <1>1, <1>2, <1>3 DEF IInv, TypeOK, Answers
  <2>2. pc' \in Pcs /\ result' \in {"none", "true", "false"}
    BY <1>1, <1>2, <1>3 DEF IInv, TypeOK, Pcs
  <2>3. block_size' \in Sizes /\ hostWidth' \in {1, 4}
    BY <1>1, SizesOK DEF IInv, TypeOK
  <2>4. QED
    BY <1>1, <1>2, <2>1, <2>2, <2>3 DEF IInv, TypeOK
<1>5. AddressInv' /\ SizeInv'
  BY <1>1, <1>2, <1>3 DEF IInv, AddressInv, SizeInv, CountIs
<1>6. AnswerInv'
  BY <1>1, <1>2, <1>3 DEF IInv, AnswerInv, Begins, PowersUp, Identifies,
     Addresses, AsksScr, Selected
<1>7. CardInv'
  BY <1>1, <1>2, <1>3 DEF IInv, CardInv, Begins, PowersUp, Identifies,
     Addresses, AsksScr, Selected
<1>8. NoFaultInv'
  BY <1>1, <1>2, <1>3 DEF IInv, NoFaultInv, Addresses, AsksScr, Selected
<1>9. ClockInv'
  BY <1>1, <1>2, <1>3 DEF IInv, ClockInv, Begins, PowersUp, Identifies,
     Addresses, AsksScr, Selected
<1>10. DoneInv' /\ Ready' /\ Agreed'
  BY <1>1, <1>2, <1>3 DEF IInv, DoneInv, Ready, Agreed, AddressInv, CardInv,
     NoFaultInv, AsksScr, Selected
<1>11. Clocked'
  BY <1>1, <1>2, <1>3 DEF IInv, Clocked, ClockInv, Begins, PowersUp,
     Identifies, Addresses, AsksScr, Selected
<1>12. QED
  BY <1>4, <1>5, <1>6, <1>7, <1>8, <1>9, <1>10, <1>11 DEF IInv

-----------------------------------------------------------------------------
(* The strengthened invariant holds in every reachable state: whatever the *)
(* card, the size it reports and the commands or answers that are damaged. *)
THEOREM Invariant == Spec => []IInv
<1>1. IInv /\ [Next]_vars => IInv'
  <2> SUFFICES ASSUME IInv, [Next]_vars
               PROVE  IInv'
    OBVIOUS
  <2>1. CASE UNCHANGED vars
    <3> USE <2>1 DEF vars, hostVars, configVars, foundVars, csdVars, busVars
    <3>1. TypeOK' /\ AddressInv' /\ AnswerInv' /\ CardInv'
      BY DEF IInv, TypeOK, AddressInv, AnswerInv, CardInv
    <3>2. NoFaultInv' /\ ClockInv' /\ SizeInv' /\ DoneInv'
      BY DEF IInv, NoFaultInv, ClockInv, SizeInv, CountIs, DoneInv
    <3>3. Ready' /\ Agreed' /\ Clocked'
      BY DEF IInv, Ready, Agreed, Clocked
    <3>4. QED
      BY <3>1, <3>2, <3>3 DEF IInv
  <2>2. CASE Next
    BY <2>2, DeviceInitOK, ClockIdentificationOK, GoIdleStateOK, SendIfCondOK,
       AppOpCondOK, SendOpCondOK, VoltageSwitchOK, AllSendCidOK,
       SendRelativeAddrOK, SendCsdOK, ClockNormalOK, SelectCardOK, AppScrOK,
       SendScrOK, SwitchQueryOK, SwitchFuncOK, ClockHighSpeedOK, AppBusWidthOK,
       SetBusWidthOK DEF Next
  <2>3. QED
    BY <2>1, <2>2
<1>2. QED
  BY <1>1, InitOK, PTL DEF Spec

(* Every variable of the driver and of the card keeps to its values.       *)
THEOREM TypeCorrect == Spec => []TypeOK
<1>1. IInv => TypeOK
  BY DEF IInv
<1>2. QED
  BY <1>1, Invariant, PTL

(* When init returns true the card is selected under the address the       *)
(* driver has, however many commands and answers were lost or damaged and  *)
(* went unnoticed (sd.cpp:10-203).                                         *)
THEOREM ReadyWhenTrue == Spec => []Ready
<1>1. IInv => Ready
  BY DEF IInv
<1>2. QED
  BY <1>1, Invariant, PTL

(* Nothing damaged: card and host use the same lines, and the csd parsed   *)
(* is the card's own (sd.cpp:131-140, 187-196).                            *)
THEOREM AgreedWhenTrue == Spec => []Agreed
<1>1. IInv => Agreed
  BY DEF IInv
<1>2. QED
  BY <1>1, Invariant, PTL

(* The sector count and size that ioctl gives are those of the register of *)
(* the card, for every value of its fields (sd.cpp:206-233).               *)
THEOREM SizeIsShown == Spec => []SizeShown
<1>1. IInv => SizeShown
  BY DEF IInv, SizeInv, CountIs, Ready, SizeShown, get_sector_count,
     get_sector_size
<1>2. QED
  BY <1>1, Invariant, PTL

(* No rate is asked for before the card can bear it (sd.cpp:31, 143, 316). *)
THEOREM ClockedInTime == Spec => []Clocked
<1>1. IInv => Clocked
  BY DEF IInv
<1>2. QED
  BY <1>1, Invariant, PTL

=============================================================================
