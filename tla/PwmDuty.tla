------------------------------- MODULE PwmDuty -------------------------------
(***************************************************************************)
(* The DUTY registers behind p2afan/pwm.py and the pass apply_duty of      *)
(* p2afan/control.py makes over them: one P2A bus access per step, with    *)
(* the BMC's own accesses between them.                                    *)
(*                                                                         *)
(* A DUTY register is a pair of 16-bit halves, one channel each, and can   *)
(* only be read and written whole.  P2aLock admits one program at a time   *)
(* (Takeover), so there is one host pass; it does not hold off the BMC.    *)
(***************************************************************************)
EXTENDS Integers

CONSTANTS
  ChannelLists,     \* the values Controller.channels takes
  Pct,              \* duties in percent the controller decides on
  BmcChan,          \* channels the BMC sets by itself
  BmcHalf,          \* the 16-bit settings it gives them
  Fragile,          \* channels the BMC may disable
  MaxOverrides      \* bound: no pass starts after this many overrides

Channel == 0 .. 7
Reg     == 0 .. 3
Byte    == 0 .. 255
Half    == 0 .. 65535
Word    == [0 .. 1 -> Half]       \* 1: bits 31:16, 0: bits 15:0

Driven == UNION ChannelLists

ASSUME PwmAssumption ==
  /\ ChannelLists \subseteq SUBSET Channel
  /\ Pct \subseteq Int
  /\ BmcChan \subseteq Channel /\ Fragile \subseteq Channel
  /\ BmcHalf \subseteq Half
  /\ MaxOverrides \in Nat

RegOf(c) == c \div 2
High(c)  == c % 2
Siblings(c, d) == c # d /\ RegOf(c) = RegOf(d)

VARIABLES
  word, enabled,      \* the DUTY registers, the enable bits of CTRL, CTRL_EXT
  pc,                 \* "idle", "check", "read", "write", "verify"
  channels, pct,      \* the arguments of the pass
  todo, chan, latch,  \* channels left, the one in hand, the word read for it
  ok, overrides,      \* apply_duty's ok, Controller.overrides
  bmc,                \* the BMC between its read and its write: [on, chan, word]
  \* History, read by no action of the code:
  quiet,              \* the BMC has not written since the pass began
  passed,             \* the last pass ran to its end
  given               \* per channel, every setting someone gave it

NoWord == [high \in 0 .. 1 |-> 0]
NoAccess == [on |-> FALSE, chan |-> 0, word |-> NoWord]

vars == <<word, enabled, pc, channels, pct, todo, chan, latch, ok, overrides,
          bmc, quiet, passed, given>>

-----------------------------------------------------------------------------
(* The arithmetic of pwm.py.  Operators named Buggy... are mutants: slips in *)
(* the code that the properties below are shown to detect.                  *)

Clip(n) == IF n < 0 THEN 0 ELSE IF n > 255 THEN 255 ELSE n

\* Python's round: to the nearest integer, a tie to the even one.
RoundHundredths(n) ==
  LET q == n \div 100
      r == n % 100
  IN  IF r > 50 \/ (r = 50 /\ q % 2 = 1) THEN q + 1 ELSE q

\* int() in place of round().
BuggyPctToByteTruncated(p) == Clip((p * 255) \div 100)

PctToByte(p) == Clip(RoundHundredths(p * 255))

\* The value without its shift into bits 15:8.
BuggyApplyFallUnshifted(w, high, v) == [w EXCEPT ![high] = Clip(v)]

\* The sibling's half not carried over.
BuggyApplyFallAlone(w, high, v) ==
  [h \in 0 .. 1 |-> IF h = high THEN 256 * Clip(v) ELSE 0]

\* apply_fall: rise = 0, the sibling's half from the word that was read.
ApplyFall(w, high, v) == [w EXCEPT ![high] = 256 * Clip(v)]

\* The low half read for every channel.
BuggyGetFallLow(c) == (word[RegOf(c)][0] \div 256) % 256

GetFall(c) == (word[RegOf(c)][High(c)] \div 256) % 256

Setting(c) == word[RegOf(c)][High(c)]

-----------------------------------------------------------------------------
Init ==
  /\ word \in [Reg -> [0 .. 1 -> BmcHalf]] /\ enabled = Channel
  /\ pc = "idle" /\ channels = {} /\ pct = 0
  /\ todo = {} /\ chan = 0 /\ latch = NoWord
  /\ ok = TRUE /\ overrides = 0
  /\ bmc = NoAccess
  /\ quiet = FALSE /\ passed = FALSE
  /\ given = [c \in Channel |-> {Setting(c)}]

\* apply_duty is called.  An empty list skips both of its loops.
ApplyDuty(cs, p) ==
  /\ pc = "idle" /\ overrides < MaxOverrides
  /\ pc' = IF cs = {} THEN "idle" ELSE "check"
  /\ channels' = cs /\ pct' = p /\ todo' = cs
  /\ ok' = TRUE /\ quiet' = TRUE /\ passed' = (cs = {})
  /\ UNCHANGED <<word, enabled, chan, latch, overrides, bmc, given>>

\* set_fall takes the next channel and reads its enable bit; ChannelDisabled
\* leaves apply_duty with the channels before it written.
CheckEnabled(c) ==
  /\ pc = "check" /\ c \in todo
  /\ chan' = c
  /\ pc' = IF c \in enabled THEN "read" ELSE "idle"
  /\ UNCHANGED <<word, enabled, channels, pct, todo, latch, ok, overrides,
                 bmc, quiet, passed, given>>

ReadWord ==
  /\ pc = "read"
  /\ latch' = word[RegOf(chan)]
  /\ pc' = "write"
  /\ UNCHANGED <<word, enabled, channels, pct, todo, chan, ok, overrides,
                 bmc, quiet, passed, given>>

WriteWord ==
  LET v == PctToByte(pct)
      left == todo \ {chan}
  IN  /\ pc = "write"
      /\ word' = [word EXCEPT ![RegOf(chan)] = ApplyFall(latch, High(chan), v)]
      /\ given' = [given EXCEPT ![chan] = @ \cup {256 * v}]
      /\ IF left = {} THEN pc' = "verify" /\ todo' = channels
                      ELSE pc' = "check" /\ todo' = left
      /\ latch' = NoWord
      /\ UNCHANGED <<enabled, channels, pct, chan, ok, overrides, bmc, quiet,
                     passed>>

\* The readback of one channel; after the last, an override is counted.
Verify(c) ==
  /\ pc = "verify" /\ c \in todo
  /\ todo' = todo \ {c}
  /\ ok' = (ok /\ GetFall(c) = PctToByte(pct))
  /\ IF todo' = {}
       THEN /\ pc' = "idle" /\ passed' = TRUE
            /\ overrides' = IF ok' THEN overrides ELSE overrides + 1
       ELSE UNCHANGED <<pc, passed, overrides>>
  /\ UNCHANGED <<word, enabled, channels, pct, chan, latch, bmc, quiet, given>>

\* The process dies, or an access of the bridge raises.
Abort ==
  /\ pc # "idle" /\ pc' = "idle"
  /\ todo' = {} /\ latch' = NoWord
  /\ UNCHANGED <<word, enabled, channels, pct, chan, ok, overrides, bmc,
                 quiet, passed, given>>

\* The BMC's driver updates one half by the same read-modify-write.
BmcRead(c) ==
  /\ ~bmc.on
  /\ bmc' = [on |-> TRUE, chan |-> c, word |-> word[RegOf(c)]]
  /\ UNCHANGED <<word, enabled, pc, channels, pct, todo, chan, latch, ok,
                 overrides, quiet, passed, given>>

BmcWrite(h) ==
  /\ bmc.on /\ bmc' = NoAccess
  /\ word' = [word EXCEPT ![RegOf(bmc.chan)] =
                            [bmc.word EXCEPT ![High(bmc.chan)] = h]]
  /\ given' = [given EXCEPT ![bmc.chan] = @ \cup {h}]
  /\ quiet' = FALSE
  /\ UNCHANGED <<enabled, pc, channels, pct, todo, chan, latch, ok, overrides,
                 passed>>

BmcToggles(c) ==
  /\ enabled' = IF c \in enabled THEN enabled \ {c} ELSE enabled \cup {c}
  /\ UNCHANGED <<word, pc, channels, pct, todo, chan, latch, ok, overrides,
                 bmc, quiet, passed, given>>

Host == \/ \E cs \in ChannelLists, p \in Pct : ApplyDuty(cs, p)
        \/ \E c \in Channel : CheckEnabled(c) \/ Verify(c)
        \/ ReadWord \/ WriteWord \/ Abort

Bmc == \/ \E c \in BmcChan : BmcRead(c)
       \/ \E h \in BmcHalf : BmcWrite(h)
       \/ \E c \in Fragile : BmcToggles(c)

Next == Host \/ Bmc

Spec == Init /\ [][Next]_vars

-----------------------------------------------------------------------------
(* Properties.                                                              *)

TypeOK ==
  /\ word \in [Reg -> Word] /\ enabled \subseteq Channel
  /\ pc \in {"idle", "check", "read", "write", "verify"}
  /\ channels \in ChannelLists \cup {{}}
  /\ pct \in Pct \cup {0} /\ (pc # "idle" => pct \in Pct)
  /\ todo \subseteq channels /\ (pc \in {"check", "verify"} => todo # {})
  /\ chan \in Channel /\ (pc \in {"read", "write"} => chan \in todo)
  /\ latch \in Word
  /\ ok \in BOOLEAN /\ overrides \in 0 .. MaxOverrides
  /\ (pc # "idle" => overrides < MaxOverrides)
  /\ bmc \in [on : BOOLEAN, chan : Channel, word : Word]
  /\ (bmc.on => bmc.chan \in BmcChan)
  /\ quiet \in BOOLEAN /\ passed \in BOOLEAN
  /\ given \in [Channel -> SUBSET Half]

\* No channel ever holds a setting nobody gave that channel: whatever the two
\* read-modify-writes do to each other, no byte of one channel ends up in the
\* other half of its register (the shifts and masks of apply_fall).
NoInventedDuty == \A c \in Channel : Setting(c) \in given[c]

\* After a pass the BMC left alone, every channel of the list holds rise = 0
\* and a fall within half a step of the duty asked for, channels that share a
\* register with each other included (apply_duty, apply_fall, pct_to_byte).
QuietPassHolds ==
  passed /\ quiet =>
    \A c \in channels :
      /\ Setting(c) % 256 = 0
      /\ pct \in 0 .. 100 =>
           LET error == 100 * (Setting(c) \div 256) - 255 * pct
           IN  error <= 50 /\ error >= -50

\* An override is counted only when the BMC wrote a register while the pass
\* was under way: the pass never mistakes its own writes to the sibling of a
\* channel for interference (apply_duty's readback, Controller.overrides).
NoFalseOverride == [][overrides' # overrides => ~quiet]_vars

\* README.md:357: "Writes are read-modify-write on one 16-bit half so the
\* sibling channel is never disturbed."  The read-modify-write is of the whole
\* register, and nothing holds the BMC off between its read and its write.
SiblingKept ==
  [][WriteWord => \A d \in Channel : Siblings(chan, d) => Setting(d)' = Setting(d)]_vars

\* The BMC does not set the other half of a register the program writes.
QuietSiblings == \A c \in BmcChan, d \in Driven : ~Siblings(c, d)

\* The channels are independent (PwmChannels), as long as no half of a driven
\* register is the BMC's: set_fall is then one atomic write of one channel.
Channels == INSTANCE PwmChannels WITH HostByte <- {PctToByte(p) : p \in Pct},
                                      setting <- [c \in Channel |-> Setting(c)]
ImplementsChannels == Channels!Spec
=============================================================================
