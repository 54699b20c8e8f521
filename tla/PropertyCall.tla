---------------------------- MODULE PropertyCall ----------------------------
(***************************************************************************)
(* Property messages (src/include/kernel/mailbox/mailbox.h:119-198, with   *)
(* the tags of framebuffer.h and board.h and their callers) over the       *)
(* mailbox.  The constructor lays the tags out one after the other, the    *)
(* GPU walks them by the size each one states, and get_tag finds them      *)
(* again by the sizes of their types.  Nothing but this arithmetic makes   *)
(* the three agree.                                                        *)
(*                                                                         *)
(* A message is a sequence of words.  What the GPU writes is negative.     *)
(***************************************************************************)
EXTENDS Mailbox, SequencesExt

CONSTANTS
    Callers,     \* which message is put at which address, one way or another
    Junk         \* what the padding behind cid may hold: a set with 0

ASSUME PropertyCallAssumption ==
    /\ Callers \subseteq [Buffers -> {"framebuffer", "board", "clock"}]
    /\ 0 \in Junk /\ Junk \subseteq 0 .. 2^24 - 1

VARIABLES
    words,     \* tags[] of the message at an address
    sent,      \* which message the callers put at an address, fixed by a build
    pos,       \* where the GPU is in the message it works on (external)
    got        \* what get_tag returned for each tag after the last call

propVars == <<words, sent, pos, got>>

-----------------------------------------------------------------------------
(* The word of union command (mailbox.h:39-48).                            *)
command(dev, type, cmd) == cmd + 4096 * type + 65536 * dev

Get == 0
Set == 8

(* The types of tag: the id, the bytes stated in size, the code of a       *)
(* request, and the words a request carries behind these three.            *)
tag(id, size, code0, value) ==
    [id |-> id, size |-> size, code |-> code0, value |-> value]

framebuffer_tags ==
    << tag(command(4, Set, 3), 8, 0, <<1024, 768>>),   \* physical dimensions
       tag(command(4, Set, 4), 8, 0, <<1024, 768>>),   \* virtual dimensions
       tag(command(4, Set, 9), 8, 0, <<0, 0>>),        \* virtual offset
       tag(command(4, Set, 5), 4, 0, <<32>>),          \* depth
       tag(command(4, Set, 6), 4, 0, <<1>>),           \* pixel order
       tag(command(4, Get, 1), 8, 0, <<4096, 0>>),     \* allocate: alignment
       tag(command(4, Get, 8), 4, 0, <<0>>) >>         \* pitch

board_tags ==
    << tag(command(1, Get, 4), 8, 0, <<0, 0>>),        \* serial
       tag(command(0, Get, 1), 4, 0, <<0>>),           \* firmware revision
       tag(command(1, Get, 1), 4, 0, <<0>>),           \* board model
       tag(command(1, Get, 2), 4, 0, <<0>>),           \* board revision
       tag(command(1, Get, 5), 8, 0, <<0, 0>>),        \* CPU memory
       tag(command(1, Get, 6), 8, 0, <<0, 0>>) >>      \* video memory

(* cid is one byte: nothing sets the other three of its word.              *)
emmc == 1

M_clock_tags(junk) ==
    << tag(command(3, Get, 2), 8, IF junk = 0 THEN 4 ELSE -1,
           <<emmc + 256 * junk, junk>>) >>

clock_tags(junk) ==
    << tag(command(3, Get, 2), 8, 4, <<emmc + 256 * junk, 0>>) >>

Tags(m, junk) == IF m = "framebuffer" THEN framebuffer_tags
                 ELSE IF m = "board" THEN board_tags
                 ELSE clock_tags(junk)

(* sizeof of a tag in words, and the constants of property_message.        *)
SizeOf(t) == 3 + Len(t.value)

total_tag_size(tags) == 4 * FoldLeft(LAMBDA n, t : n + SizeOf(t), 0, tags)

align_up(x, a) == ((x + a - 1) \div a) * a

tags_size(tags) == align_up(2 * 4 + total_tag_size(tags), 16) - 8

(* The constructor: the tags one after the other, then zeros.              *)
property_message(tags) ==
    LET filled == FlattenSeq([k \in DOMAIN tags |->
                     <<tags[k].id, tags[k].size, tags[k].code>> \o tags[k].value])
    IN  [k \in 1 .. tags_size(tags) \div 4 |->
            IF k \leq Len(filled) THEN filled[k] ELSE 0]

(* get_tag for the k-th type: the words of the types before it are skipped.*)
M_Offset(tags, k) ==
    FoldLeft(LAMBDA n, t : n + 2 + Len(t.value), 0, SubSeq(tags, 1, k - 1))

Offset(tags, k) ==
    FoldLeft(LAMBDA n, t : n + SizeOf(t), 0, SubSeq(tags, 1, k - 1))

get_tag(w, tags, k) ==
    LET from == Offset(tags, k)
    IN  [id |-> w[from + 1], size |-> w[from + 2], code |-> w[from + 3],
         value |-> [j \in DOMAIN tags[k].value |-> w[from + 3 + j]]]

Layout == [m \in {"framebuffer", "board", "clock"} |->
              [junk \in Junk |-> property_message(Tags(m, junk))]]

-----------------------------------------------------------------------------
(* The GPU (external).  A clock it does not know has the rate 0, and it    *)
(* may have no memory for a frame buffer.                                  *)
Answered32 == -1
Refusable  == command(4, Get, 1)

Answer(id, request, j) ==
    IF id = command(3, Get, 2) /\ (j = 1 \/ request # emmc)
    THEN IF j = 1 THEN request ELSE 0
    ELSE -(id * 2 + j)

AtTag == LET w == words[gpu_msg]
         IN  pos + 2 \leq Len(w) /\ w[pos] > 0 /\ w[pos + 1] \geq 0

GpuTag ==
    /\ gpu_state = "working" /\ AtTag
    /\ LET w  == words[gpu_msg]
           id == w[pos]
           n  == w[pos + 1] \div 4
       IN  /\ \/ id = Refusable /\ UNCHANGED words
              \/ words' = [words EXCEPT ![gpu_msg] = [k \in DOMAIN w |->
                    IF k = pos + 2 THEN Answered32
                    ELSE IF k \in pos + 3 .. pos + 2 + n
                         THEN Answer(id, w[pos + 3], k - pos - 2)
                         ELSE w[k]]]
           /\ pos' = pos + 3 + n
    /\ UNCHANGED <<vars, sent, got>>

Walk == GpuTakes /\ pos' = 1 /\ UNCHANGED <<words, sent, got>>

WalkEnds == GpuWrites /\ ~AtTag /\ UNCHANGED propVars

-----------------------------------------------------------------------------
(* The callers: allocate_framebuffer, print_board_info and                 *)
(* get_base_clock_rate.                                                    *)
MakeMessage ==
    /\ CallMailbox
    /\ \E junk \in Junk :
          /\ sent[msg'] # "clock" => junk = 0
          /\ words' = [words EXCEPT ![msg'] = Layout[sent[msg']][junk]]
    /\ got' = << >>
    /\ UNCHANGED <<sent, pos>>

(* call_property returns and the caller takes every tag.                   *)
ReadTags ==
    /\ PropertyReturns
    /\ LET tags == Tags(sent[msg], 0)
       IN  got' = [k \in DOMAIN tags |-> get_tag(words[msg], tags, k)]
    /\ UNCHANGED <<words, sent, pos>>

PropInit ==
    /\ Init
    /\ sent \in Callers
    /\ words = [b \in Buffers |-> Layout[sent[b]][0]]
    /\ pos = 1
    /\ got = << >>

CallerStep ==
    \/ ReadTags
    \/ (send_message \/ CallAnswered \/ CallRetries) /\ UNCHANGED propVars

GpuStep == Walk \/ GpuTag \/ WalkEnds \/ (GpuAnswers /\ UNCHANGED propVars)

PropNext == \/ MakeMessage \/ CallerStep \/ GpuStep
            \/ GpuSends /\ UNCHANGED propVars

PropSpec == /\ PropInit /\ [][PropNext]_<<vars, propVars>>
            /\ WF_<<vars, propVars>>(CallerStep) /\ WF_<<vars, propVars>>(GpuStep)

-----------------------------------------------------------------------------
(* The GPU meets the zero that ends the tags inside the message: there is  *)
(* a word left for it in every message of the kernel (mailbox.h:121-127).  *)
EndTagInside ==
    gpu_state = "answering" /\ ~missed => pos \leq Len(words[gpu_msg])

(* What get_tag returns for a type is what the GPU answered for that type, *)
(* and the request where it answered nothing, when the call has waited for *)
(* its own answer: the layout of the constructor, the walk by the stated   *)
(* sizes and the offsets of get_tag agree (mailbox.h:119-150).  In a       *)
(* refused allocation the address of the frame buffer is the alignment     *)
(* 4096, which the caller does not tell from an address (buffer.cpp:31).   *)
TagsAreAnswers ==
    /\ EndTagInside
    /\ got # << >> /\ ~missed =>
          LET tags == Tags(sent[msg], 0)
          IN  \A k \in DOMAIN tags :
                 /\ got[k].id = tags[k].id /\ got[k].size = tags[k].size
                 /\ \/ tags[k].id = Refusable /\ got[k] = tags[k]
                    \/ /\ got[k].code = Answered32
                       /\ \A j \in 1 .. tags[k].size \div 4 :
                             got[k].value[j]
                               = Answer(tags[k].id, got[k].value[1], j)

(* A base clock rate other than 0 is the GPU's, also when the caller went  *)
(* on with a message that was not its answer: the code of the tag tells    *)
(* (sd.cpp:333).                                                           *)
BaseRate(t) == IF t.value[2] = 0 \/ t.code # Answered32 THEN 0 ELSE t.value[2]

RateIsAnswered ==
    got # << >> /\ sent[msg] = "clock" =>
        BaseRate(got[1]) \in {0, Answer(command(3, Get, 2), emmc, 2)}
=============================================================================
