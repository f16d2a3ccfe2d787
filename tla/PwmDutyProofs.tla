---------------------------- MODULE PwmDutyProofs ----------------------------
(* Theorems about PwmDuty, for every channel list, duty and BMC setting. *)
EXTENDS PwmDuty, TLAPS

LEMMA Halves ==
  /\ \A c \in Channel : RegOf(c) \in Reg /\ High(c) \in 0 .. 1
  /\ \A c, d \in Channel : c # d /\ RegOf(c) = RegOf(d) => High(c) # High(d)
BY DEF Channel, RegOf, High, Reg

LEMMA ClipByte == \A n \in Int : Clip(n) \in Byte /\ (n \in Byte => Clip(n) = n)
BY DEF Clip, Byte

LEMMA DutyByte == \A p \in Int : PctToByte(p) \in Byte
<1> SUFFICES ASSUME NEW p \in Int PROVE PctToByte(p) \in Byte
  OBVIOUS
<1>1. RoundHundredths(p * 255) \in Int
  BY DEF RoundHundredths
<1> QED BY <1>1, ClipByte DEF PctToByte

LEMMA PassByte == TypeOK => PctToByte(pct) \in Byte
BY DutyByte, PwmAssumption DEF TypeOK

LEMMA RoundNear ==
  ASSUME NEW n \in Int
  PROVE  /\ RoundHundredths(n) \in Int
         /\ 100 * RoundHundredths(n) - n <= 50 /\ 100 * RoundHundredths(n) - n >= -50
<1> DEFINE q == n \div 100
           r == n % 100
<1>1. q \in Int /\ r \in Int /\ 0 <= r /\ r <= 99 /\ n = 100 * q + r
  OBVIOUS
<1>2. RoundHundredths(n) \in {q, q + 1}
  BY DEF RoundHundredths
<1>3. RoundHundredths(n) = q => r <= 50
  <2>1. r > 50 => RoundHundredths(n) = q + 1
    BY DEF RoundHundredths
  <2> HIDE DEF q, r
  <2> QED BY <1>1, <2>1
<1>4. RoundHundredths(n) = q + 1 => r >= 50
  <2>1. r < 50 => RoundHundredths(n) = q
    <3>1. r < 50 => ~(r > 50) /\ r # 50
      BY <1>1
    <3> QED BY <3>1, Zenon DEF RoundHundredths
  <2> HIDE DEF q, r
  <2> QED BY <1>1, <2>1
<1> HIDE DEF q, r
<1> QED BY <1>1, <1>2, <1>3, <1>4

LEMMA Nearest ==
  \A p \in 0 .. 100 : LET error == 100 * PctToByte(p) - 255 * p
                      IN  error <= 50 /\ error >= -50
<1> SUFFICES ASSUME NEW p \in Int, 0 <= p, p <= 100
             PROVE  /\ 100 * PctToByte(p) - 255 * p <= 50
                    /\ 100 * PctToByte(p) - 255 * p >= -50
  OBVIOUS
<1> DEFINE r == RoundHundredths(p * 255)
<1>1. r \in Int /\ 100 * r - p * 255 <= 50 /\ 100 * r - p * 255 >= -50
  BY RoundNear
<1>2. PctToByte(p) = Clip(r)
  BY DEF PctToByte
<1> HIDE DEF r
<1>3. 0 <= r /\ r <= 255
  BY <1>1
<1>4. Clip(r) = r
  BY <1>1, <1>3 DEF Clip
<1> QED BY <1>1, <1>2, <1>4

LEMMA HighByte ==
  ASSUME NEW v \in Int
  PROVE  (256 * v) \div 256 = v
  OBVIOUS

LEMMA LowByte ==
  ASSUME NEW v \in Int
  PROVE  /\ (256 * v) % 256 = 0
         /\ 0 <= v /\ v <= 255 => v % 256 = v
<1>1. (256 * v) % 256 = 0
  OBVIOUS
<1>2. 0 <= v /\ v <= 255 => v % 256 = v
  OBVIOUS
<1> QED BY <1>1, <1>2

LEMMA HalfTop == \E top \in Int : Half = 0 .. top /\ 256 * 255 <= top
<1>1. PICK top \in Int : top = 65535
  OBVIOUS
<1>2. 256 * 255 <= top
  BY <1>1
<1>3. Half = 0 .. top
  BY <1>1 DEF Half
<1> QED BY <1>2, <1>3

LEMMA Scaled ==
  ASSUME NEW n \in Int, NEW b \in Int, NEW top \in Int, 0 <= n, n <= b, 256 * b <= top
  PROVE  256 * n \in 0 .. top
  OBVIOUS

LEMMA FallBytes ==
  \A v \in Byte : /\ 256 * v \in Half
                  /\ (256 * v) \div 256 = v
                  /\ (256 * v) % 256 = 0
                  /\ ((256 * v) \div 256) % 256 = v
<1> SUFFICES ASSUME NEW v \in Int, 0 <= v, v <= 255
             PROVE  /\ 256 * v \in Half
                    /\ (256 * v) \div 256 = v
                    /\ (256 * v) % 256 = 0
                    /\ ((256 * v) \div 256) % 256 = v
  BY DEF Byte
<1>1. 256 * v \in Half
  <2>1. PICK top \in Int : Half = 0 .. top /\ 256 * 255 <= top
    BY HalfTop
  <2>2. 256 * v \in 0 .. top
    BY <2>1, Scaled
  <2> QED BY <2>1, <2>2
<1>2. (256 * v) \div 256 = v
  BY HighByte
<1>3. (256 * v) % 256 = 0
  BY LowByte
<1>4. v % 256 = v
  BY LowByte
<1>5. ((256 * v) \div 256) % 256 = v
  BY <1>2, <1>4, Zenon
<1> QED BY <1>1, <1>2, <1>3, <1>5

LEMMA Blank == /\ NoWord \in Word
               /\ NoAccess \in [on : BOOLEAN, chan : Channel, word : Word]
               /\ ~NoAccess.on
<1>1. NoWord \in Word
  BY DEF NoWord, Word, Half
<1> QED BY <1>1 DEF NoAccess, Channel

\* Every variable keeps its type, and the loops of apply_duty their place.
THEOREM TypeCorrect == Spec => []TypeOK
<1> USE PwmAssumption DEF Channel, Reg
<1>1. Init => TypeOK
  <2> SUFFICES ASSUME Init PROVE TypeOK
    OBVIOUS
  <2>1. word \in [Reg -> Word]
    BY DEF Init, Word
  <2>2. /\ latch \in Word /\ ~bmc.on
        /\ bmc \in [on : BOOLEAN, chan : Channel, word : Word]
    BY Blank DEF Init
  <2>3. given \in [Channel -> SUBSET Half]
    BY <2>1, Halves DEF Init, Setting, Word
  <2>4. /\ enabled \subseteq Channel /\ channels \in ChannelLists \cup {{}}
        /\ todo \subseteq channels /\ overrides \in 0 .. MaxOverrides
        /\ pc = "idle" /\ pct \in Pct \cup {0} /\ chan \in Channel
    <3>1. /\ enabled = Channel /\ channels = {} /\ todo = {} /\ overrides = 0
          /\ pc = "idle" /\ pct = 0 /\ chan = 0
      BY DEF Init
    <3> QED BY <3>1 DEF PwmAssumption
  <2>5. ok \in BOOLEAN /\ quiet \in BOOLEAN /\ passed \in BOOLEAN
    BY Zenon DEF Init
  <2> QED BY <2>1, <2>2, <2>3, <2>4, <2>5 DEF TypeOK
<1>2. TypeOK /\ [Next]_vars => TypeOK'
  <2> SUFFICES ASSUME TypeOK, [Next]_vars PROVE TypeOK'
    OBVIOUS
  <2> USE DEF TypeOK
  <2>1. ASSUME NEW cs \in ChannelLists, NEW p \in Pct, ApplyDuty(cs, p) PROVE TypeOK'
    BY <2>1 DEF ApplyDuty
  <2>2. ASSUME NEW c \in Channel, CheckEnabled(c) PROVE TypeOK'
    BY <2>2 DEF CheckEnabled
  <2>3. ASSUME NEW c \in Channel, Verify(c) PROVE TypeOK'
    <3>1. todo' = todo \ {c} /\ ok' \in BOOLEAN /\ overrides < MaxOverrides
      BY <2>3 DEF Verify
    <3>2. CASE todo' = {}
      <4>1. /\ pc' = "idle" /\ passed' = TRUE
            /\ overrides' = IF ok' THEN overrides ELSE overrides + 1
            /\ UNCHANGED <<word, enabled, channels, pct, chan, latch, bmc,
                           quiet, given>>
        BY <2>3, <3>2 DEF Verify
      <4>2. overrides' \in 0 .. MaxOverrides
        BY <3>1, <4>1
      <4> QED BY <3>1, <4>1, <4>2
    <3>3. CASE todo' # {}
      BY <2>3, <3>1, <3>3 DEF Verify
    <3> QED BY <3>2, <3>3
  <2>4. CASE ReadWord
    BY <2>4, Halves DEF ReadWord
  <2>5. CASE WriteWord
    <3> DEFINE v == PctToByte(pct)
    <3>1. v \in Byte /\ Clip(v) = v /\ 256 * v \in Half
      <4>1. v \in Byte
        BY PassByte
      <4>2. v \in Int
        BY <4>1 DEF Byte
      <4> HIDE DEF v
      <4>3. Clip(v) = v
        BY <4>1, <4>2, ClipByte, Zenon
      <4>4. 256 * v \in Half
        BY <4>1, FallBytes, Zenon
      <4> QED BY <4>1, <4>3, <4>4
    <3>2. ApplyFall(latch, High(chan), v) \in Word
      BY <3>1, Halves DEF ApplyFall, Word
    <3>3. word' \in [Reg -> Word]
      BY <2>5, <3>2 DEF WriteWord
    <3>4. given' \in [Channel -> SUBSET Half]
      BY <2>5, <3>1 DEF WriteWord
    <3>5. /\ latch' \in Word /\ todo' \subseteq channels' /\ overrides' \in 0 .. MaxOverrides
          /\ pc' \in {"read", "write", "idle", "check", "verify"}
      BY <2>5, Blank DEF WriteWord
    <3> QED BY <2>5, <3>3, <3>4, <3>5 DEF WriteWord
  <2>6. CASE Abort
    BY <2>6, Blank DEF Abort
  <2>7. ASSUME NEW c \in BmcChan, BmcRead(c) PROVE TypeOK'
    BY <2>7, Halves DEF BmcRead
  <2>8. ASSUME NEW h \in BmcHalf, BmcWrite(h) PROVE TypeOK'
    <3>1. [bmc.word EXCEPT ![High(bmc.chan)] = h] \in Word
      BY Halves DEF Word
    <3>2. word' \in [Reg -> Word] /\ given' \in [Channel -> SUBSET Half]
      BY <2>8, <3>1 DEF BmcWrite
    <3> QED BY <2>8, Blank, <3>2 DEF BmcWrite
  <2>9. ASSUME NEW c \in Fragile, BmcToggles(c) PROVE TypeOK'
    BY <2>9 DEF BmcToggles
  <2>10. CASE UNCHANGED vars
    BY <2>10 DEF vars
  <2> QED BY <2>1, <2>2, <2>3, <2>4, <2>5, <2>6, <2>7, <2>8, <2>9, <2>10
       DEF Next, Host, Bmc
<1> QED BY <1>1, <1>2, PTL DEF Spec

-----------------------------------------------------------------------------
(* One step of a register write, host's or BMC's, as its two halves see it. *)

LEMMA WriteEffect ==
  ASSUME TypeOK, TypeOK', WriteWord
  PROVE  \A c \in Channel :
           Setting(c)' = CASE c = chan -> 256 * PctToByte(pct)
                           [] Siblings(chan, c) -> latch[High(c)]
                           [] OTHER -> Setting(c)
<1> SUFFICES ASSUME NEW c \in Channel
             PROVE  Setting(c)' = CASE c = chan -> 256 * PctToByte(pct)
                           [] Siblings(chan, c) -> latch[High(c)]
                           [] OTHER -> Setting(c)
  OBVIOUS
<1> DEFINE v == PctToByte(pct)
<1>1. /\ chan \in Channel /\ latch \in Word /\ word \in [Reg -> Word]
      /\ RegOf(c) \in Reg /\ RegOf(chan) \in Reg
      /\ High(c) \in 0 .. 1 /\ High(chan) \in 0 .. 1
      /\ (c # chan /\ RegOf(c) = RegOf(chan) => High(c) # High(chan))
  BY Halves DEF TypeOK
<1>2. word' = [word EXCEPT ![RegOf(chan)] = [latch EXCEPT ![High(chan)] = 256 * v]]
  <2>1. v \in Byte /\ Clip(v) = v
    BY PassByte, ClipByte DEF TypeOK, Byte
  <2>2. word' = [word EXCEPT ![RegOf(chan)] = ApplyFall(latch, High(chan), v)]
    BY DEF WriteWord
  <2> QED BY <2>1, <2>2 DEF ApplyFall
<1>3. CASE RegOf(c) # RegOf(chan)
  BY <1>1, <1>2, <1>3 DEF Setting, Siblings
<1>4. CASE RegOf(c) = RegOf(chan)
  <2>1. Setting(c)' = [latch EXCEPT ![High(chan)] = 256 * v][High(c)]
    BY <1>1, <1>2, <1>4 DEF Setting
  <2> QED BY <1>1, <1>4, <2>1 DEF Siblings, Word
<1> QED BY <1>3, <1>4

LEMMA BmcEffect ==
  ASSUME TypeOK, NEW h \in BmcHalf, BmcWrite(h)
  PROVE  \A c \in Channel :
           Setting(c)' = CASE c = bmc.chan -> h
                           [] Siblings(bmc.chan, c) -> bmc.word[High(c)]
                           [] OTHER -> Setting(c)
<1> SUFFICES ASSUME NEW c \in Channel
             PROVE  Setting(c)' = CASE c = bmc.chan -> h
                           [] Siblings(bmc.chan, c) -> bmc.word[High(c)]
                           [] OTHER -> Setting(c)
  OBVIOUS
<1> DEFINE d == bmc.chan
<1>1. /\ d \in Channel /\ bmc.word \in Word /\ word \in [Reg -> Word]
      /\ RegOf(c) \in Reg /\ RegOf(d) \in Reg
      /\ High(c) \in 0 .. 1 /\ High(d) \in 0 .. 1
      /\ (c # d /\ RegOf(c) = RegOf(d) => High(c) # High(d))
  BY Halves DEF TypeOK
<1>2. word' = [word EXCEPT ![RegOf(d)] = [bmc.word EXCEPT ![High(d)] = h]]
  BY DEF BmcWrite
<1>3. CASE RegOf(c) # RegOf(d)
  BY <1>1, <1>2, <1>3 DEF Setting, Siblings
<1>4. CASE RegOf(c) = RegOf(d)
  <2>1. Setting(c)' = [bmc.word EXCEPT ![High(d)] = h][High(c)]
    BY <1>1, <1>2, <1>4 DEF Setting
  <2> QED BY <1>1, <1>4, <2>1 DEF Siblings, Word
<1> QED BY <1>3, <1>4

-----------------------------------------------------------------------------
(* Both programs hold, between read and write, only what was given.          *)

LatchGiven == pc = "write" =>
  \A c \in Channel : Siblings(chan, c) => latch[High(c)] \in given[c]

BmcGiven == bmc.on =>
  \A c \in Channel : Siblings(bmc.chan, c) => bmc.word[High(c)] \in given[c]

GivenInv == NoInventedDuty /\ LatchGiven /\ BmcGiven

\* No read-modify-write of the host or of the BMC puts a setting into a
\* channel that was not given to that channel (apply_fall, set_fall).
THEOREM NothingInvented == Spec => []NoInventedDuty
<1> USE DEF GivenInv
<1>1. Init => GivenInv
  <2> SUFFICES ASSUME Init PROVE GivenInv
    OBVIOUS
  <2>1. NoInventedDuty
    BY DEF Init, NoInventedDuty
  <2>2. LatchGiven
    BY DEF Init, LatchGiven
  <2>3. BmcGiven
    BY Blank DEF Init, BmcGiven
  <2> QED BY <2>1, <2>2, <2>3
<1>2. TypeOK /\ TypeOK' /\ GivenInv /\ [Next]_vars => GivenInv'
  <2> SUFFICES ASSUME TypeOK, TypeOK', GivenInv, [Next]_vars PROVE GivenInv'
    OBVIOUS
  <2> USE DEF NoInventedDuty, LatchGiven, BmcGiven
  <2>1. ASSUME UNCHANGED <<word, bmc, given>>,
               pc' = "write" => pc = "write" /\ UNCHANGED <<chan, latch>>
        PROVE  GivenInv'
    BY <2>1 DEF Setting
  <2>2. ASSUME NEW cs \in ChannelLists, NEW p \in Pct, ApplyDuty(cs, p) PROVE GivenInv'
    BY <2>1, <2>2 DEF ApplyDuty
  <2>3. ASSUME NEW c \in Channel, CheckEnabled(c) PROVE GivenInv'
    BY <2>1, <2>3 DEF CheckEnabled
  <2>4. ASSUME NEW c \in Channel, Verify(c) PROVE GivenInv'
    BY <2>1, <2>4 DEF Verify
  <2>5. CASE ReadWord
    BY <2>5 DEF ReadWord, Setting, Siblings
  <2>6. CASE WriteWord
    <3>1. /\ \A c \in Channel : given[c] \subseteq given'[c]
          /\ 256 * PctToByte(pct) \in given'[chan]
          /\ pc = "write" /\ pc' # "write" /\ bmc' = bmc
      BY <2>6 DEF WriteWord, TypeOK
    <3>2. \A c \in Channel : Setting(c)' \in given'[c]
      BY <2>6, <3>1, WriteEffect
    <3> QED BY <3>1, <3>2
  <2>7. CASE Abort
    BY <2>1, <2>7 DEF Abort
  <2>8. ASSUME NEW c \in BmcChan, BmcRead(c) PROVE GivenInv'
    <3>1. /\ UNCHANGED <<word, pc, chan, latch, given>>
          /\ bmc'.chan = c /\ bmc'.word = word[RegOf(c)]
      BY <2>8 DEF BmcRead
    <3>2. NoInventedDuty' /\ LatchGiven'
      BY <3>1 DEF Setting
    <3>3. BmcGiven'
      BY <3>1 DEF Setting, Siblings
    <3> QED BY <3>2, <3>3
  <2>9. ASSUME NEW h \in BmcHalf, BmcWrite(h) PROVE GivenInv'
    <3>1. /\ \A c \in Channel : given[c] \subseteq given'[c]
          /\ h \in given'[bmc.chan]
          /\ bmc.on /\ UNCHANGED <<pc, chan, latch>> /\ ~bmc'.on
      BY <2>9, Blank DEF BmcWrite, TypeOK
    <3>2. \A c \in Channel : Setting(c)' \in given'[c]
      BY <2>9, <3>1, BmcEffect
    <3> QED BY <3>1, <3>2
  <2>10. ASSUME NEW c \in Fragile, BmcToggles(c) PROVE GivenInv'
    BY <2>1, <2>10 DEF BmcToggles
  <2>11. CASE UNCHANGED vars
    BY <2>1, <2>11 DEF vars
  <2> QED BY <2>2, <2>3, <2>4, <2>5, <2>6, <2>7, <2>8, <2>9, <2>10, <2>11
       DEF Next, Host, Bmc
<1> QED BY <1>1, <1>2, TypeCorrect, PTL DEF Spec

-----------------------------------------------------------------------------
(* The pass apply_duty makes while the BMC writes nothing.                   *)

Holds(c) == Setting(c) = 256 * PctToByte(pct)

\* While the BMC is quiet the word in hand is the register's, and the channels
\* behind the pass hold its duty.
PassInv == quiet =>
  /\ pc = "write" => latch = word[RegOf(chan)]
  /\ pc \in {"check", "read", "write"} => ok /\ \A c \in channels \ todo : Holds(c)
  /\ pc = "verify" => ok /\ \A c \in channels : Holds(c)
  /\ passed => pc = "idle" /\ \A c \in channels : Holds(c)
  /\ pc # "idle" => ~passed

LEMMA PassInitially == Init => PassInv
BY DEF Init, PassInv

\* The BMC's writes aside, only WriteWord changes a setting or a latch.
LEMMA PassStep == TypeOK /\ TypeOK' /\ PassInv /\ [Next]_vars => PassInv'
<1> SUFFICES ASSUME TypeOK, TypeOK', PassInv, [Next]_vars PROVE PassInv'
  OBVIOUS
<1> USE DEF PassInv
<1>0. channels \subseteq Channel /\ todo \subseteq channels
  BY PwmAssumption DEF TypeOK
<1>1. ASSUME UNCHANGED <<word, pc, channels, pct, todo, chan, latch, ok, quiet, passed>>
      PROVE  PassInv'
  BY <1>1 DEF Holds, Setting
<1>2. ASSUME NEW cs \in ChannelLists, NEW p \in Pct, ApplyDuty(cs, p) PROVE PassInv'
  BY <1>2 DEF ApplyDuty
<1>3. ASSUME NEW c \in Channel, CheckEnabled(c) PROVE PassInv'
  BY <1>3 DEF CheckEnabled, Holds, Setting
<1>4. ASSUME NEW c \in Channel, Verify(c) PROVE PassInv'
  <2> SUFFICES ASSUME quiet PROVE PassInv'
    BY <1>4 DEF Verify
  <2>1. /\ UNCHANGED <<word, channels, pct, chan, latch, quiet>>
        /\ pc = "verify" /\ c \in channels /\ ok /\ ~passed
        /\ \A d \in channels : Holds(d) /\ Holds(d)'
    BY <1>0, <1>4 DEF Verify, Holds, Setting
  <2>2. GetFall(c) = PctToByte(pct)
    BY <2>1, PassByte, FallBytes DEF GetFall, Holds, Setting, TypeOK
  <2>3. ok'
    BY <1>4, <2>1, <2>2 DEF Verify
  <2>4. pc' = "idle" \/ (pc' = "verify" /\ ~passed')
    BY <1>4, <2>1 DEF Verify
  <2> QED BY <2>1, <2>3, <2>4
<1>5. CASE ReadWord
  BY <1>5 DEF ReadWord, Holds, Setting
<1>6. CASE WriteWord
  <2> SUFFICES ASSUME quiet PROVE PassInv'
    BY <1>6 DEF WriteWord
  <2>1. /\ UNCHANGED <<channels, pct, chan, quiet, passed>>
        /\ pc = "write" /\ latch = word[RegOf(chan)] /\ ~passed
        /\ ok /\ ok' = ok /\ chan \in todo /\ chan \in Channel
    BY <1>6 DEF WriteWord, TypeOK
  <2>2. Holds(chan)' /\ \A c \in Channel \ {chan} : Setting(c)' = Setting(c)
    BY <1>6, <2>1, WriteEffect DEF Holds, Siblings, Setting
  <2>3. \A c \in channels : c = chan \/ c \notin todo => Holds(c)'
    BY <1>0, <2>1, <2>2 DEF Holds
  <2>4. CASE todo \ {chan} = {}
    <3>1. pc' = "verify" /\ todo' = channels
      BY <1>6, <2>4 DEF WriteWord
    <3>2. \A c \in channels : Holds(c)'
      BY <2>3, <2>4
    <3>3. ok'
      BY <2>1
    <3> QED BY <2>1, <3>1, <3>2, <3>3
  <2>5. CASE todo \ {chan} # {}
    <3>1. pc' = "check" /\ todo' = todo \ {chan}
      BY <1>6, <2>5 DEF WriteWord
    <3> QED BY <2>1, <2>3, <3>1
  <2> QED BY <2>4, <2>5
<1>7. CASE Abort
  BY <1>7 DEF Abort
<1>8. ASSUME NEW c \in BmcChan, BmcRead(c) PROVE PassInv'
  BY <1>1, <1>8 DEF BmcRead
<1>9. ASSUME NEW h \in BmcHalf, BmcWrite(h) PROVE PassInv'
  BY <1>9 DEF BmcWrite
<1>10. ASSUME NEW c \in Fragile, BmcToggles(c) PROVE PassInv'
  BY <1>1, <1>10 DEF BmcToggles
<1>11. CASE UNCHANGED vars
  BY <1>1, <1>11 DEF vars
<1> QED BY <1>2, <1>3, <1>4, <1>5, <1>6, <1>7, <1>8, <1>9, <1>10, <1>11
     DEF Next, Host, Bmc

\* A pass the BMC leaves alone puts every channel of its list within half a
\* step of the duty asked for (apply_duty, apply_fall, pct_to_byte).
THEOREM QuietPass == Spec => []QuietPassHolds
<1>1. TypeOK /\ PassInv => QuietPassHolds
  <2> SUFFICES ASSUME TypeOK, PassInv, passed, quiet, NEW c \in channels
               PROVE  /\ Setting(c) % 256 = 0
                      /\ pct \in 0 .. 100 =>
                           LET error == 100 * (Setting(c) \div 256) - 255 * pct
                           IN  error <= 50 /\ error >= -50
    BY DEF QuietPassHolds
  <2>1. Setting(c) = 256 * PctToByte(pct) /\ PctToByte(pct) \in Byte
    BY PassByte DEF PassInv, Holds, TypeOK
  <2>2. Setting(c) % 256 = 0 /\ Setting(c) \div 256 = PctToByte(pct)
    BY <2>1, FallBytes
  <2> QED BY <2>2, Nearest
<1> QED BY <1>1, TypeCorrect, PassInitially, PassStep, PTL DEF Spec

\* An override is counted only if the BMC wrote during the pass: apply_duty's
\* writes to the channels of one register never spoil each other's readback.
THEOREM OverridesReal == Spec => NoFalseOverride
<1>1. TypeOK /\ PassInv /\ [Next]_vars => [overrides' # overrides => ~quiet]_vars
  <2> SUFFICES ASSUME TypeOK, PassInv, [Next]_vars, overrides' # overrides, quiet
               PROVE  FALSE
    OBVIOUS
  <2>1. PICK c \in Channel : Verify(c)
    BY DEF Next, Host, Bmc, vars, ApplyDuty, CheckEnabled, ReadWord, WriteWord,
           Abort, BmcRead, BmcWrite, BmcToggles
  <2>2. ok /\ Holds(c) /\ ~ok'
    BY <2>1 DEF Verify, PassInv, TypeOK
  <2>3. GetFall(c) = PctToByte(pct)
    BY <2>2, PassByte, FallBytes DEF GetFall, Holds, Setting, TypeOK
  <2> QED BY <2>1, <2>2, <2>3 DEF Verify
<1> QED BY <1>1, TypeCorrect, PassInitially, PassStep, PTL DEF Spec, NoFalseOverride

-----------------------------------------------------------------------------
(* Refinement: with quiet siblings the halves are independent channels.      *)

\* What a program holds of the half it does not set is what is there.
LatchFresh == pc = "write" =>
  \A c \in Channel : Siblings(chan, c) => latch[High(c)] = Setting(c)

BmcFresh == bmc.on =>
  \A c \in Channel : Siblings(bmc.chan, c) => bmc.word[High(c)] = Setting(c)

FreshInv == LatchFresh /\ BmcFresh

setting == [c \in Channel |-> Setting(c)]

LEMMA FreshInitially == Init => FreshInv
BY Blank DEF Init, FreshInv, LatchFresh, BmcFresh

\* Under FreshInv a whole-register write sets one half.
LEMMA OneHalf ==
  ASSUME TypeOK, TypeOK', FreshInv
  PROVE  /\ WriteWord => /\ chan \in Driven /\ chan \in Channel
                         /\ \A c \in Channel : Setting(c)' =
                              IF c = chan THEN 256 * PctToByte(pct) ELSE Setting(c)
         /\ \A h \in BmcHalf : BmcWrite(h) =>
              /\ bmc.chan \in BmcChan
              /\ \A c \in Channel : Setting(c)' =
                   IF c = bmc.chan THEN h ELSE Setting(c)
<1>1. ASSUME WriteWord PROVE chan \in Driven /\ chan \in Channel
  BY <1>1 DEF WriteWord, TypeOK, Driven
<1>2. ASSUME WriteWord, NEW c \in Channel
      PROVE  Setting(c)' = IF c = chan THEN 256 * PctToByte(pct) ELSE Setting(c)
  <2>1. Siblings(chan, c) => latch[High(c)] = Setting(c)
    BY <1>2 DEF WriteWord, FreshInv, LatchFresh
  <2> QED BY <1>2, <2>1, WriteEffect DEF Siblings
<1>3. ASSUME NEW h \in BmcHalf, BmcWrite(h)
      PROVE  bmc.chan \in BmcChan
  BY <1>3 DEF BmcWrite, TypeOK
<1>4. ASSUME NEW h \in BmcHalf, BmcWrite(h), NEW c \in Channel
      PROVE  Setting(c)' = IF c = bmc.chan THEN h ELSE Setting(c)
  <2>1. Siblings(bmc.chan, c) => bmc.word[High(c)] = Setting(c)
    BY <1>4 DEF BmcWrite, FreshInv, BmcFresh
  <2> QED BY <1>4, <2>1, BmcEffect DEF Siblings
<1> QED BY <1>1, <1>2, <1>3, <1>4

LEMMA FreshStep ==
  ASSUME QuietSiblings, TypeOK, TypeOK', FreshInv, [Next]_vars
  PROVE  FreshInv'
<1> USE DEF FreshInv, LatchFresh, BmcFresh
<1>1. ASSUME UNCHANGED <<word, bmc>>,
             pc' = "write" => pc = "write" /\ UNCHANGED <<chan, latch>>
      PROVE  FreshInv'
  BY <1>1 DEF Setting
<1>2. ASSUME NEW cs \in ChannelLists, NEW p \in Pct, ApplyDuty(cs, p) PROVE FreshInv'
  BY <1>1, <1>2 DEF ApplyDuty
<1>3. ASSUME NEW c \in Channel, CheckEnabled(c) \/ Verify(c) PROVE FreshInv'
  BY <1>1, <1>3 DEF CheckEnabled, Verify
<1>4. CASE ReadWord
  BY <1>4 DEF ReadWord, Setting, Siblings
<1>5. CASE WriteWord
  <2>1. pc' # "write" /\ bmc' = bmc /\ chan \in Driven
    BY <1>5, OneHalf DEF WriteWord
  <2>2. ASSUME bmc.on, NEW c \in Channel, Siblings(bmc.chan, c)
        PROVE  Setting(c)' = Setting(c)
    <3>1. c \notin Driven
      BY <2>2 DEF QuietSiblings, TypeOK
    <3> QED BY <1>5, <2>1, <3>1, OneHalf
  <2> QED BY <2>1, <2>2
<1>6. CASE Abort
  BY <1>1, <1>6 DEF Abort
<1>7. ASSUME NEW d \in BmcChan, BmcRead(d) PROVE FreshInv'
  <2>1. /\ UNCHANGED <<word, pc, chan, latch>>
        /\ bmc'.chan = d /\ bmc'.word = word[RegOf(d)]
    BY <1>7 DEF BmcRead
  <2> QED BY <2>1 DEF Setting, Siblings
<1>8. ASSUME NEW h \in BmcHalf, BmcWrite(h) PROVE FreshInv'
  <2>1. ~bmc'.on /\ UNCHANGED <<pc, chan, latch>> /\ bmc.chan \in BmcChan
    BY <1>8, Blank, OneHalf DEF BmcWrite
  <2>2. ASSUME pc = "write", NEW c \in Channel, Siblings(chan, c)
        PROVE  Setting(c)' = Setting(c)
    <3>1. chan \in Driven
      BY <2>2 DEF TypeOK, Driven
    <3>2. c # bmc.chan
      BY <2>1, <2>2, <3>1 DEF QuietSiblings, Siblings
    <3> QED BY <1>8, <3>2, OneHalf
  <2> QED BY <2>1, <2>2
<1>9. ASSUME NEW c \in Fragile, BmcToggles(c) PROVE FreshInv'
  BY <1>1, <1>9 DEF BmcToggles
<1>10. CASE UNCHANGED vars
  BY <1>1, <1>10 DEF vars
<1> QED BY <1>2, <1>3, <1>4, <1>5, <1>6, <1>7, <1>8, <1>9, <1>10
    DEF Next, Host, Bmc

LEMMA StepsMap ==
  ASSUME TypeOK, TypeOK', FreshInv, [Next]_vars
  PROVE  [Channels!Next]_setting
<1>1. ASSUME UNCHANGED word PROVE UNCHANGED setting
  BY <1>1 DEF setting, Setting
<1>2. CASE WriteWord
  <2>1. setting' = [setting EXCEPT ![chan] = 256 * PctToByte(pct)]
    <3>1. /\ chan \in Channel
          /\ \A c \in Channel : Setting(c)' =
               IF c = chan THEN 256 * PctToByte(pct) ELSE Setting(c)
      BY <1>2, OneHalf, Zenon
    <3> QED BY <3>1 DEF setting
  <2>2. chan \in Driven /\ PctToByte(pct) \in {PctToByte(p) : p \in Pct}
    BY <1>2, OneHalf DEF WriteWord, TypeOK
  <2>3. Channels!HostSets(chan, PctToByte(pct))
    BY <2>1, Zenon DEF Channels!HostSets, setting
  <2> QED BY <2>2, <2>3, Zenon DEF Channels!Next
<1>3. ASSUME NEW h \in BmcHalf, BmcWrite(h) PROVE Channels!Next
  <2>1. /\ bmc.chan \in BmcChan
        /\ \A c \in Channel : Setting(c)' = IF c = bmc.chan THEN h ELSE Setting(c)
    BY <1>3, OneHalf, Zenon
  <2>2. bmc.chan \in Channel
    BY <2>1, PwmAssumption DEF PwmAssumption
  <2>3. setting' = [setting EXCEPT ![bmc.chan] = h]
    BY <2>1, <2>2 DEF setting
  <2>4. Channels!BmcSets(bmc.chan, h)
    BY <2>3, Zenon DEF Channels!BmcSets, setting
  <2> QED BY <2>1, <2>4, Zenon DEF Channels!Next
<1>4. \/ WriteWord
      \/ \E h \in BmcHalf : BmcWrite(h)
      \/ UNCHANGED word
  BY DEF Next, Host, Bmc, vars, ApplyDuty, CheckEnabled, Verify, ReadWord,
         Abort, BmcRead, BmcToggles
<1> QED BY <1>1, <1>2, <1>3, <1>4

\* set_fall implements an atomic write of one channel when the BMC leaves the
\* other halves of the driven registers alone.
THEOREM ChannelsIndependent == ASSUME QuietSiblings PROVE Spec => ImplementsChannels
<1>1. Init => Channels!Init
  <2> SUFFICES ASSUME Init PROVE Channels!Init
    OBVIOUS
  <2>1. \A c \in Channel : Setting(c) \in BmcHalf
    BY Halves DEF Init, Setting
  <2> QED BY <2>1 DEF Channels!Init, Channels!Channel, Channel
<1>2. TypeOK /\ TypeOK' /\ FreshInv /\ [Next]_vars => FreshInv'
  BY FreshStep
<1>3. TypeOK /\ TypeOK' /\ FreshInv /\ [Next]_vars => [Channels!Next]_setting
  BY StepsMap
<1>4. Spec => []FreshInv
  BY <1>2, TypeCorrect, FreshInitially, PTL DEF Spec
<1>5. Spec => [][Channels!Next]_setting
  BY <1>3, <1>4, TypeCorrect, PTL DEF Spec
<1> QED BY <1>1, <1>5, PTL DEF Spec, ImplementsChannels, Channels!Spec, setting
==============================================================================
