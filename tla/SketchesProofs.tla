---------------------------- MODULE SketchesProofs ----------------------------
(***************************************************************************)
(* The safety of the small programs that Sketches puts side by side: of    *)
(* the stopwatch, the infrared transmitter and the infrared link by the    *)
(* proofs below, for every width of a word and of a byte; of the remote    *)
(* control by those of RemoteProofs.                                       *)
(***************************************************************************)
EXTENDS Sketches, KernelLemmas

-----------------------------------------------------------------------------
(* A behaviour of Sketches is one of each program, which may rest.         *)

LEMMA TimerSpec == Spec => Timer!Spec
<1>1. Init => Timer!Init
  BY DEF Init
<1>2. ASSUME [Next]_vars
      PROVE  [Timer!Next]_(Timer!vars)
  <2>1. CASE part = "timer" /\ Next
    BY <2>1 DEF Next
  <2>2. CASE UNCHANGED timer_vars
    BY <2>2 DEF timer_vars, Timer!vars
  <2> QED
    BY <1>2, <2>1, <2>2 DEF Next, vars
<1> QED  BY <1>1, <1>2, PTL DEF Spec, Timer!Spec

LEMMA IrSpec == Spec => Ir!Spec
<1>1. Init => Ir!Init
  BY DEF Init
<1>2. ASSUME [Next]_vars
      PROVE  [Ir!Next]_(Ir!vars)
  <2>1. CASE part = "ir" /\ Next
    BY <2>1 DEF Next
  <2>2. CASE UNCHANGED ir_vars
    BY <2>2 DEF ir_vars, Ir!vars, Ir!receiver
  <2> QED
    BY <1>2, <2>1, <2>2 DEF Next, vars
<1> QED  BY <1>1, <1>2, PTL DEF Spec, Ir!Spec

LEMMA SketchSpec == Spec => Sketch!Spec
<1>1. Init => Sketch!Init
  BY DEF Init
<1>2. ASSUME [Next]_vars
      PROVE  [Sketch!Next]_(Sketch!vars)
  <2>1. CASE part = "sketch" /\ Next
    BY <2>1 DEF Next
  <2>2. CASE UNCHANGED sketch_vars
    BY <2>2 DEF sketch_vars, Sketch!vars
  <2> QED
    BY <1>2, <2>1, <2>2 DEF Next, vars
<1> QED  BY <1>1, <1>2, PTL DEF Spec, Sketch!Spec

LEMMA LightSpec == Spec => Light!Spec
<1>1. Init => Light!Init
  BY DEF Init
<1>2. ASSUME [Next]_vars
      PROVE  [Light!Next]_(Light!vars)
  <2>1. CASE part = "light" /\ Next
    BY <2>1 DEF Next
  <2>2. CASE UNCHANGED light_vars
    BY <2>2 DEF light_vars, Light!vars
  <2> QED
    BY <1>2, <2>1, <2>2 DEF Next, vars
<1> QED  BY <1>1, <1>2, PTL DEF Spec, Light!Spec

LEMMA ControlSpec == Spec => Control!Spec
<1>1. Init => Control!Init
  BY DEF Init
<1>2. ASSUME [Next]_vars
      PROVE  [Control!Next]_(Control!vars)
  <2>1. CASE part = "remote" /\ Next
    BY <2>1 DEF Next
  <2>2. CASE UNCHANGED remote_vars
    BY <2>2 DEF remote_vars, Control!vars, Control!radio_vars,
                 Control!app_vars
  <2> QED
    BY <1>2, <2>1, <2>2 DEF Next, vars
<1> QED  BY <1>1, <1>2, PTL DEF Spec, Control!Spec

-----------------------------------------------------------------------------
(* The stopwatches (OsTimer).                                              *)

LEMMA TimerInit == Timer!Init => Timer!IInv
<1> SUFFICES ASSUME Timer!Init PROVE Timer!IInv
  OBVIOUS
<1>1. WORD \in Nat \ {0} /\ 0 \in 0 .. WORD - 1
  BY SketchesAssumption DEF SketchesAssumption, Timer!OsTimerAssumption
<1>2. elapsed_time + now - last_update = 0
  BY DEF Timer!Init
<1>3. 0 % WORD = 0
  BY <1>1, OwnRemainder
<1>4. ran = (elapsed_time + now - last_update) % WORD
  BY <1>2, <1>3 DEF Timer!Init
<1> QED
  BY <1>1, <1>4 DEF Timer!Init, Timer!IInv, Timer!Words

LEMMA TimerNext == Timer!IInv /\ [Timer!Next]_(Timer!vars) => Timer!IInv'
<1> SUFFICES ASSUME Timer!IInv, [Timer!Next]_(Timer!vars) PROVE Timer!IInv'
  OBVIOUS
<1> USE DEF Timer!IInv, Timer!Words
<1>0. WORD \in Nat \ {0} /\ \A x \in Int : x % WORD \in 0 .. WORD - 1
  BY SketchesAssumption, Quotient DEF SketchesAssumption, Timer!OsTimerAssumption
<1> DEFINE e == elapsed_time - last_update
<1>1. e \in Int /\ now \in Int /\ ran \in Int /\ now + 1 \in Int /\ ran + 1 \in Int
  BY <1>0
<1>2. ~paused => ran = (e + now) % WORD
  <2>1. elapsed_time + now - last_update = e + now
    BY <1>0
  <2> QED  BY <2>1
<1>3. CASE Timer!Millisecond
  <2>1. /\ now' = (now + 1) % WORD /\ ran' = IF paused THEN ran ELSE (ran + 1) % WORD
        /\ UNCHANGED <<elapsed_time, last_update, paused>>
    BY <1>3 DEF Timer!Millisecond
  <2>2. now' \in 0 .. WORD - 1 /\ ran' \in 0 .. WORD - 1
    BY <1>0, <1>1, <2>1
  <2>3. ASSUME ~paused
        PROVE  ran' = (elapsed_time' + now' - last_update') % WORD
    <3>1. (((now + 1) % WORD) + e) % WORD = ((now + 1) + e) % WORD
      BY <1>0, <1>1, RemainderInSum
    <3>2. (((e + now) % WORD) + 1) % WORD = ((e + now) + 1) % WORD
      <4>1. e + now \in Int
        BY <1>1
      <4> HIDE DEF e
      <4> QED  BY <1>0, <4>1, RemainderInSum
    <3>3. (now + 1) + e = (e + now) + 1
      BY <1>1
    <3>4. ran' = (now' + e) % WORD
      BY <1>2, <2>1, <2>3, <3>1, <3>2, <3>3
    <3>5. elapsed_time' + now' - last_update' = now' + e
      <4>1. elapsed_time' = elapsed_time /\ last_update' = last_update
        BY <2>1
      <4> QED  BY <1>0, <2>2, <4>1
    <3> QED  BY <3>4, <3>5
  <2> QED  BY <2>1, <2>2, <2>3
<1>4. CASE Timer!timer_reset
  BY <1>0, <1>4 DEF Timer!timer_reset
<1>5. CASE Timer!timer_pause
  <2>1. (((now - last_update) % WORD) + elapsed_time) % WORD
          = ((now - last_update) + elapsed_time) % WORD
    <3>1. now - last_update \in Int /\ elapsed_time \in Int
      BY <1>0
    <3> QED  BY <1>0, <3>1, RemainderInSum
  <2>2. /\ (now - last_update) + elapsed_time = elapsed_time + now - last_update
        /\ (now - last_update) % WORD \in Int
        /\ ((now - last_update) % WORD) + elapsed_time
             = elapsed_time + ((now - last_update) % WORD)
    BY <1>0
  <2>3. elapsed_time' = ran
    BY <1>5, <2>1, <2>2 DEF Timer!timer_pause, Timer!Since
  <2> QED  BY <1>5, <2>3 DEF Timer!timer_pause
<1>6. CASE Timer!timer_resume
  <2>1. elapsed_time + now - now = elapsed_time /\ elapsed_time % WORD = elapsed_time
    BY <1>0, OwnRemainder
  <2> QED  BY <1>6, <2>1 DEF Timer!timer_resume, Timer!LastUpdate
<1>7. CASE UNCHANGED Timer!vars
  BY <1>7 DEF Timer!vars
<1> QED  BY <1>3, <1>4, <1>5, <1>6, <1>7 DEF Timer!Next

LEMMA TimerValue == Timer!IInv => Timer!ValueIsRunningTime
<1> SUFFICES ASSUME Timer!IInv, ~paused PROVE Timer!timer_value = ran
  BY DEF Timer!IInv, Timer!ValueIsRunningTime, Timer!timer_value
<1>0. WORD \in Nat \ {0} /\ now - last_update \in Int /\ elapsed_time \in Int
  BY SketchesAssumption
    DEF SketchesAssumption, Timer!OsTimerAssumption, Timer!IInv, Timer!Words
<1>1. (((now - last_update) % WORD) + elapsed_time) % WORD
          = ((now - last_update) + elapsed_time) % WORD
  BY <1>0, RemainderInSum
<1>2. /\ (now - last_update) + elapsed_time = elapsed_time + now - last_update
      /\ ((now - last_update) % WORD) + elapsed_time
           = elapsed_time + ((now - last_update) % WORD)
  BY <1>0, Quotient DEF Timer!IInv, Timer!Words
<1> QED  BY <1>1, <1>2 DEF Timer!timer_value, Timer!Since, Timer!IInv

\* A stopwatch says for how long it has run, across pauses and wrap-arounds.
THEOREM TimerRight == Spec => []TimerIsRunningTime
<1>1. Timer!Spec => []Timer!IInv
  BY TimerInit, TimerNext, PTL DEF Timer!Spec
<1>2. Timer!IInv => TimerIsRunningTime
  BY TimerValue DEF TimerIsRunningTime
<1> QED  BY TimerSpec, <1>1, <1>2, PTL

-----------------------------------------------------------------------------
(* The infrared transmitter of Project 1 (IrSketch).                       *)

\* The bits that the receiver is to see.
LEMMA FrameBits ==
  ASSUME asked \in Light!Bytes
  PROVE  /\ Light!Frame \in Seq(BOOLEAN) /\ Len(Light!Frame) = Light!Sequence + 1
         /\ \A i \in 0 .. Light!Sequence - 1 :
              Light!Frame[i + 1] = (i \in {0} \cup {b + 2 : b \in asked})
         /\ Light!Frame[Light!Sequence + 1] = FALSE
<1> DEFINE byte == [i \in 1 .. BITS |-> i - 1 \in asked]
           mark == <<TRUE, FALSE>>
           end  == <<FALSE>>
           s    == mark \o byte
<1>0. BITS \in Nat \ {0} /\ asked \subseteq 0 .. BITS - 1
  BY SketchesAssumption DEF SketchesAssumption, Light!IrSketchAssumption, Light!Bytes
<1>1. byte \in Seq(BOOLEAN) /\ Len(byte) = BITS
  BY <1>0
<1>2. \A i \in 1 .. BITS : byte[i] = (i - 1 \in asked)
  OBVIOUS
<1>9. mark \in Seq(BOOLEAN) /\ Len(mark) = 2
  OBVIOUS
<1>8. mark[1] = TRUE /\ mark[2] = FALSE
  OBVIOUS
<1>3. end \in Seq(BOOLEAN) /\ Len(end) = 1 /\ end[1] = FALSE
  OBVIOUS
<1> HIDE DEF byte, mark, end
<1>4. /\ s \in Seq(BOOLEAN) /\ Len(s) = BITS + 2
      /\ s[1] = TRUE /\ s[2] = FALSE /\ \A i \in 1 .. BITS : s[i + 2] = byte[i]
  <2>0. s = mark \o byte
    OBVIOUS
  <2> HIDE DEF s
  <2>1. s \in Seq(BOOLEAN) /\ Len(s) = 2 + BITS
    BY <1>0, <1>1, <1>9, <2>0, ConcatProperties
  <2>2. \A i \in 1 .. 2 + BITS : s[i] = IF i <= 2 THEN mark[i] ELSE byte[i - 2]
    <3>1. \A i \in 1 .. Len(mark) + Len(byte) :
            s[i] = IF i <= Len(mark) THEN mark[i] ELSE byte[i - Len(mark)]
      BY <1>1, <1>9, <2>0, ConcatProperties
    <3> QED  BY <1>0, <1>1, <1>9, <3>1
  <2>3. s[1] = TRUE /\ s[2] = FALSE
    <3>1. 1 \in 1 .. 2 + BITS /\ 2 \in 1 .. 2 + BITS /\ 1 <= 2 /\ 2 <= 2
      BY <1>0
    <3>2. s[1] = mark[1] /\ s[2] = mark[2]
      BY <2>2, <3>1
    <3> QED  BY <1>8, <3>2
  <2>4. \A i \in 1 .. BITS : i + 2 \in 1 .. 2 + BITS /\ ~(i + 2 <= 2) /\ (i + 2) - 2 = i
    BY <1>0
  <2>5. \A i \in 1 .. BITS : s[i + 2] = byte[i]
    BY <2>2, <2>4
  <2> QED  BY <1>0, <2>1, <2>3, <2>5
<1> HIDE DEF s
<1>5. /\ Light!Frame \in Seq(BOOLEAN) /\ Len(Light!Frame) = BITS + 3
      /\ \A i \in 1 .. BITS + 2 : Light!Frame[i] = s[i]
      /\ Light!Frame[BITS + 3] = FALSE
  <2>1. Light!Frame = s \o end
    BY DEF Light!Frame, s, byte, mark, end
  <2>2. Light!Frame \in Seq(BOOLEAN) /\ Len(Light!Frame) = BITS + 2 + 1
    <3>1. s \in Seq(BOOLEAN) /\ end \in Seq(BOOLEAN)
      BY <1>3, <1>4
    <3>2. Light!Frame \in Seq(BOOLEAN) /\ Len(Light!Frame) = Len(s) + Len(end)
      BY <2>1, <3>1, ConcatProperties
    <3>3. Len(s) = BITS + 2 /\ Len(end) = 1
      BY <1>3, <1>4
    <3> QED  BY <3>2, <3>3
  <2>3. \A i \in 1 .. Len(s) + Len(end) :
          Light!Frame[i] = IF i <= Len(s) THEN s[i] ELSE end[i - Len(s)]
    BY <1>3, <1>4, <2>1, ConcatProperties
  <2>4. \A i \in 1 .. BITS + 2 : i \in 1 .. BITS + 2 + 1 /\ i <= BITS + 2
    BY <1>0
  <2>5. /\ BITS + 3 \in 1 .. BITS + 2 + 1 /\ ~(BITS + 3 <= BITS + 2)
        /\ (BITS + 3) - (BITS + 2) = 1 /\ BITS + 2 + 1 = BITS + 3
    BY <1>0
  <2> QED  BY <1>3, <1>4, <2>2, <2>3, <2>4, <2>5
<1>6. ASSUME NEW i \in 0 .. BITS + 1
      PROVE  Light!Frame[i + 1] = (i \in {0} \cup {b + 2 : b \in asked})
  <2>1. CASE i = 0
    BY <1>0, <1>4, <1>5, <2>1
  <2>2. CASE i = 1
    BY <1>0, <1>4, <1>5, <2>2
  <2>3. CASE i >= 2
    <3>1. i - 1 \in 1 .. BITS /\ (i - 1) + 2 = i + 1 /\ (i - 1) - 1 = i - 2
      BY <1>0, <2>3
    <3>2. Light!Frame[i + 1] = (i - 2 \in asked)
      BY <1>0, <1>2, <1>4, <1>5, <3>1
    <3>3. i - 2 \in asked <=> i \in {0} \cup {b + 2 : b \in asked}
      BY <1>0, <2>3
    <3> QED  BY <3>2, <3>3
  <2> QED  BY <2>1, <2>2, <2>3
<1>7. /\ Light!Sequence + 1 = BITS + 3
      /\ 0 .. Light!Sequence - 1 = 0 .. BITS + 1
  BY <1>0 DEF Light!Sequence
<1> QED  BY <1>5, <1>6, <1>7

LEMMA LightNext == Light!IInv /\ [Light!Next]_(Light!vars) => Light!IInv'
<1> SUFFICES ASSUME Light!IInv, [Light!Next]_(Light!vars) PROVE Light!IInv'
  OBVIOUS
<1>0. /\ BITS \in Nat \ {0} /\ GAP \in Nat /\ GAP > BITS + 4
      /\ Light!Sequence = BITS + 2 /\ Light!TypeOK /\ Len(sent) \in Nat
  BY SketchesAssumption
    DEF SketchesAssumption, Light!IrSketchAssumption, Light!Sequence, Light!IInv,
        Light!TypeOK
<1>1. ASSUME UNCHANGED asked PROVE Light!Frame' = Light!Frame
  BY <1>1 DEF Light!Frame
<1>2. ASSUME NEW byte \in Light!Bytes, Light!transmit(byte)
      PROVE  Light!IInv'
  <2>0. OCIE3A => bit_index = Len(sent) /\ since_shot <= Len(sent) + 1
    BY DEF Light!IInv
  <2>1. ~OCIE3A /\ ~COM1C1
    <3>1. since_shot = GAP /\ bit_index \in 0 .. BITS + 2
      BY <1>0, <1>2 DEF Light!transmit, Light!TypeOK
    <3>2. ~OCIE3A
      BY <1>0, <2>0, <3>1
    <3> QED  BY <3>2 DEF Light!IInv
  <2>2. Light!TypeOK' /\ sent' = <<>> /\ Len(sent') = 0
    BY <1>0, <1>2 DEF Light!transmit, Light!TypeOK
  <2> QED  BY <1>0, <1>2, <2>1, <2>2 DEF Light!transmit, Light!IInv
<1>3. CASE Light!ResetIndex
  <2>1. Light!TypeOK'
    BY <1>0, <1>3 DEF Light!ResetIndex, Light!FirstIndex, Light!TypeOK
  <2> QED  BY <1>0, <1>1, <1>3, <2>1 DEF Light!ResetIndex, Light!FirstIndex, Light!IInv
<1>4. CASE Light!EnableTimer
  <2>1. Light!TypeOK'
    BY <1>0, <1>4 DEF Light!EnableTimer, Light!TypeOK
  <2>2. sent' = <<>> /\ Len(sent') = 0 /\ bit_index' = 0 /\ since_shot' <= 1
    BY <1>4 DEF Light!EnableTimer, Light!IInv
  <2> QED  BY <1>0, <1>1, <1>4, <2>1, <2>2 DEF Light!EnableTimer, Light!IInv
<1>5. CASE Light!BitTime
  <2>1. /\ light_pc = "idle" \/ since_shot = 0
        /\ since_shot' = IF since_shot < GAP THEN since_shot + 1 ELSE GAP
        /\ UNCHANGED <<bit_seq, light_pc, asked>>
    BY <1>5 DEF Light!BitTime
  <2>2. /\ since_shot' \in 0 .. GAP /\ since_shot' <= since_shot + 1
        /\ (light_pc # "idle" => since_shot' <= 1)
    BY <1>0, <2>1 DEF Light!TypeOK
  <2>3. CASE ~OCIE3A
    <3>1. UNCHANGED <<COM1C1, OCIE3A, bit_index, sent>>
      BY <1>5, <2>3 DEF Light!BitTime
    <3>2. Light!TypeOK'
      BY <1>0, <2>1, <2>2, <3>1 DEF Light!TypeOK
    <3> QED  BY <1>0, <1>1, <2>1, <2>2, <2>3, <3>1, <3>2 DEF Light!IInv
  <2>4. CASE OCIE3A
    <3>1. /\ light_pc = "idle" /\ bit_index = Len(sent) /\ since_shot <= Len(sent) + 1
          /\ bit_seq = {0} \cup {i + 2 : i \in asked} /\ bit_index \in 0 .. BITS + 2
      BY <1>0, <2>4 DEF Light!IInv, Light!TypeOK
    <3>2. sent' = Append(sent, COM1C1') /\ Light!TIMER3_COMPA
      BY <1>5, <2>4 DEF Light!BitTime
    <3>3. COM1C1' \in BOOLEAN /\ COM1C1' = Light!Frame[Len(sent) + 1]
      <4>1. CASE bit_index < Light!Sequence
        <5>1. COM1C1' = (bit_index \in bit_seq) /\ bit_index \in 0 .. Light!Sequence - 1
          BY <1>0, <3>1, <3>2, <4>1 DEF Light!TIMER3_COMPA
        <5> QED  BY <1>0, <3>1, <5>1, FrameBits DEF Light!TypeOK
      <4>2. CASE ~(bit_index < Light!Sequence)
        <5>1. COM1C1' = FALSE /\ bit_index = Light!Sequence
          BY <1>0, <3>1, <3>2, <4>2 DEF Light!TIMER3_COMPA
        <5> QED  BY <1>0, <3>1, <5>1, FrameBits DEF Light!TypeOK
      <4> QED  BY <4>1, <4>2
    <3>4. /\ sent' \in Seq(BOOLEAN) /\ Len(sent') = Len(sent) + 1
          /\ \A i \in 1 .. Len(sent) : sent'[i] = sent[i]
          /\ sent'[Len(sent) + 1] = COM1C1'
      BY <1>0, <3>2, <3>3, AppendProperties DEF Light!TypeOK
    <3>5. \A i \in 1 .. Len(sent') : sent'[i] = Light!Frame'[i]
      BY <1>0, <1>1, <2>1, <3>3, <3>4 DEF Light!IInv
    <3>6. CASE bit_index < Light!Sequence
      <4>1. UNCHANGED OCIE3A /\ bit_index' = bit_index + 1
        BY <3>2, <3>6 DEF Light!TIMER3_COMPA
      <4>2. Light!TypeOK'
        BY <1>0, <2>1, <2>2, <3>1, <3>3, <3>4, <3>6, <4>1 DEF Light!TypeOK
      <4> QED
        BY <1>0, <2>1, <2>2, <2>4, <3>1, <3>4, <3>5, <4>1, <4>2
          DEF Light!IInv, Light!TypeOK
    <3>7. CASE ~(bit_index < Light!Sequence)
      <4>1. /\ COM1C1' = FALSE /\ OCIE3A' = FALSE /\ UNCHANGED bit_index
            /\ bit_index = Light!Sequence
        <5>1. COM1C1' = FALSE /\ OCIE3A' = (~OCIE3A) /\ UNCHANGED bit_index
          BY <3>2, <3>7 DEF Light!TIMER3_COMPA
        <5>2. bit_index = Light!Sequence
          BY <1>0, <3>1, <3>7
        <5> QED  BY <2>4, <5>1, <5>2
      <4>2. Light!TypeOK'
        BY <1>0, <2>1, <2>2, <3>1, <3>3, <3>4, <4>1 DEF Light!TypeOK
      <4> QED
        BY <1>0, <2>1, <2>2, <3>1, <3>4, <3>5, <4>1, <4>2 DEF Light!IInv
    <3> QED  BY <3>6, <3>7
  <2> QED  BY <2>3, <2>4
<1>6. CASE UNCHANGED Light!vars
  <2>1. UNCHANGED <<bit_seq, bit_index, OCIE3A, COM1C1, light_pc, since_shot, asked,
                  sent>>
    BY <1>6 DEF Light!vars
  <2> QED  BY <1>0, <1>1, <2>1 DEF Light!IInv, Light!TypeOK
<1> QED  BY <1>2, <1>3, <1>4, <1>5, <1>6 DEF Light!Next

LEMMA LightInit == Light!Init => Light!IInv
<1> SUFFICES ASSUME Light!Init PROVE Light!IInv
  OBVIOUS
<1>1. BITS + 2 \in Nat /\ GAP \in Nat
  BY SketchesAssumption DEF SketchesAssumption, Light!IrSketchAssumption
<1>2. sent \in Seq(BOOLEAN) /\ Len(sent) = 0
  BY DEF Light!Init
<1>3. Light!TypeOK
  <2>1. bit_index \in 0 .. BITS + 2 /\ since_shot \in 0 .. GAP
    BY <1>1 DEF Light!Init
  <2> QED  BY <1>2, <2>1 DEF Light!Init, Light!TypeOK, Light!Sequence, Light!Bytes
<1> QED  BY <1>2, <1>3 DEF Light!Init, Light!IInv

LEMMA LightSent == Light!IInv => Light!SentAsAsked
<1> SUFFICES ASSUME Light!IInv PROVE Light!SentAsAsked
  OBVIOUS
<1>1. /\ Light!Frame \in Seq(BOOLEAN) /\ Len(Light!Frame) = Light!Sequence + 1
      /\ sent \in Seq(BOOLEAN) /\ since_shot \in Nat
      /\ BITS \in Nat /\ GAP \in Nat /\ GAP > BITS + 4 /\ Light!Sequence = BITS + 2
  BY FrameBits, SketchesAssumption
    DEF SketchesAssumption, Light!IInv, Light!TypeOK, Light!IrSketchAssumption,
        Light!Sequence
<1>2. Len(sent) \in 0 .. Len(Light!Frame)
  BY <1>1 DEF Light!IInv, Light!TypeOK
<1>3. sent = SubSeq(Light!Frame, 1, Len(sent))
  <2>1. /\ SubSeq(Light!Frame, 1, Len(sent)) \in Seq(BOOLEAN)
        /\ Len(SubSeq(Light!Frame, 1, Len(sent))) = Len(sent)
        /\ \A i \in 1 .. Len(sent) :
             SubSeq(Light!Frame, 1, Len(sent))[i] = Light!Frame[i]
    BY <1>1, <1>2
  <2> QED  BY <1>1, <2>1, SeqEqual DEF Light!IInv
<1>4. ~OCIE3A => sent \in {<<>>, Light!Frame} /\ ~COM1C1
  <2>1. ASSUME Len(sent) = Len(Light!Frame) PROVE sent = Light!Frame
    BY <1>1, <2>1, SeqEqual DEF Light!IInv
  <2> QED  BY <1>1, <2>1 DEF Light!IInv
<1>5. OCIE3A => since_shot < GAP
  <2>1. OCIE3A => since_shot <= Len(sent) + 1
    BY DEF Light!IInv
  <2> QED  BY <1>1, <1>2, <2>1
<1> QED  BY <1>3, <1>4, <1>5 DEF Light!SentAsAsked

\* Each byte is sent whole, before the next one, and leaves the transmitter off.
THEOREM BytesSentWhole == Spec => []SketchSentAsAsked
<1>1. Light!Spec => []Light!IInv
  BY LightInit, LightNext, PTL DEF Light!Spec
<1>2. Light!IInv => SketchSentAsAsked
  BY LightSent DEF SketchSentAsAsked
<1> QED  BY LightSpec, <1>1, <1>2, PTL

-----------------------------------------------------------------------------
(* The infrared link of the robots (IrLink).                               *)

\* Where there is carrier: in the mark, and in the cells of the bits that are 1.
LEMMA CarrierAt ==
  ASSUME data \in Ir!Bytes
  PROVE  /\ Ir!Carrier(0) /\ Ir!Carrier(1) /\ ~Ir!Carrier(2) /\ ~Ir!Carrier(3)
         /\ \A b \in 0 .. BITS - 1 :
              /\ Ir!Carrier(2 * b + 4) <=> b \in data
              /\ Ir!Carrier(2 * b + 5) <=> b \in data
         /\ \A p \in Int : p >= 2 * BITS + 4 => ~Ir!Carrier(p)
<1>0. BITS \in Nat \ {0} /\ data \subseteq 0 .. BITS - 1 /\ Ir!Idle = 2 * BITS + 6
  BY SketchesAssumption
    DEF SketchesAssumption, Ir!IrAssumption, Ir!Bytes, Ir!Idle, Ir!HalfBits
<1>1. ASSUME NEW p \in Int, NEW c \in Int, p = 2 * c \/ p = 2 * c + 1
      PROVE  Ir!Carrier(p) <=> p < Ir!Idle /\ (c = 0 \/ c - 2 \in data)
  <2>1. p \div 2 = c
    BY <1>1
  <2> QED  BY <2>1 DEF Ir!Carrier
<1>2. Ir!Carrier(0) /\ Ir!Carrier(1)
  <2>1. 0 = 2 * 0 /\ 1 = 2 * 0 + 1
    OBVIOUS
  <2> QED  BY <1>0, <1>1, <2>1
<1>3. ~Ir!Carrier(2) /\ ~Ir!Carrier(3)
  <2>1. 2 = 2 * 1 /\ 3 = 2 * 1 + 1 /\ 1 # 0 /\ 1 - 2 \notin data
    BY <1>0
  <2> QED  BY <1>1, <2>1
<1>4. ASSUME NEW b \in 0 .. BITS - 1
      PROVE  /\ Ir!Carrier(2 * b + 4) <=> b \in data
             /\ Ir!Carrier(2 * b + 5) <=> b \in data
  <2>1. /\ b + 2 \in Int /\ 2 * b + 4 = 2 * (b + 2) /\ 2 * b + 5 = 2 * (b + 2) + 1
        /\ 2 * b + 4 < Ir!Idle /\ 2 * b + 5 < Ir!Idle /\ b + 2 # 0 /\ (b + 2) - 2 = b
    BY <1>0
  <2>2. /\ Ir!Carrier(2 * b + 4) <=>
             2 * b + 4 < Ir!Idle /\ (b + 2 = 0 \/ (b + 2) - 2 \in data)
        /\ Ir!Carrier(2 * b + 5) <=>
             2 * b + 5 < Ir!Idle /\ (b + 2 = 0 \/ (b + 2) - 2 \in data)
    BY <1>1, <2>1
  <2> QED  BY <2>1, <2>2
<1>5. ASSUME NEW p \in Int, p >= 2 * BITS + 4
      PROVE  ~Ir!Carrier(p)
  <2>1. p \div 2 \in Int /\ (p = 2 * (p \div 2) \/ p = 2 * (p \div 2) + 1)
    OBVIOUS
  <2>2. p \div 2 >= BITS + 2
    BY <1>0, <1>5, <2>1
  <2>3. p \div 2 # 0 /\ (p \div 2) - 2 \notin data
    BY <1>0, <2>1, <2>2
  <2> QED  BY <2>3 DEF Ir!Carrier
<1> QED  BY <1>2, <1>3, <1>4, <1>5

LEMMA LinkInit == Ir!Init => Ir!IInv
<1> SUFFICES ASSUME Ir!Init PROVE Ir!IInv
  OBVIOUS
<1>1. BITS \in Nat \ {0} /\ Ir!Idle = 2 * BITS + 6
  BY SketchesAssumption DEF SketchesAssumption, Ir!IrAssumption, Ir!Idle, Ir!HalfBits
<1>2. data \in Ir!Bytes /\ pos \in 0 .. Ir!Idle /\ sending \in 0 .. Ir!HalfBits
  BY <1>1 DEF Ir!Init, Ir!Bytes, Ir!HalfBits, Ir!Idle
<1>3. Ir!TypeOK
  BY <1>2 DEF Ir!Init, Ir!TypeOK
<1> QED  BY <1>3 DEF Ir!Init, Ir!IInv

LEMMA LinkHalfBit == Ir!IInv /\ Ir!HalfBit => Ir!IInv'
<1> SUFFICES ASSUME Ir!IInv, Ir!HalfBit PROVE Ir!IInv'
  OBVIOUS
<1> DEFINE nxt == IF pos = Ir!Idle THEN Ir!Idle ELSE pos + 1
           edge == Ir!Carrier(pos) /\ ~Ir!Carrier(nxt)
<1>0. /\ BITS \in Nat \ {0} /\ Ir!Idle = 2 * BITS + 6 /\ Ir!HalfBits = 2 * BITS + 6
      /\ Ir!TypeOK /\ data \subseteq 0 .. BITS - 1 /\ data \in Ir!Bytes
  BY SketchesAssumption
    DEF SketchesAssumption, Ir!IrAssumption, Ir!Idle, Ir!HalfBits, Ir!IInv, Ir!TypeOK,
        Ir!Bytes
<1>1. /\ pos' = nxt /\ nxt \in 0 .. Ir!Idle
      /\ sending' = IF sending > 0 THEN sending - 1 ELSE 0
      /\ sending' \in 0 .. Ir!HalfBits /\ data' = data /\ clean' = clean
  BY <1>0 DEF Ir!HalfBit, Ir!TypeOK
<1>2. CASE sending > 0
  <2>1. UNCHANGED <<is_receiving, currentBit, currentByte, outputByte, wait, heard>>
    BY <1>2 DEF Ir!HalfBit, Ir!receiver
  <2>2. ~clean /\ ~is_receiving
    BY <1>0, <1>2 DEF Ir!IInv, Ir!TypeOK
  <2> QED  BY <1>0, <1>1, <2>1, <2>2
      DEF Ir!IInv, Ir!TypeOK, Ir!Idle, Ir!HalfBits, Ir!Bytes
<1>3. CASE ~(sending > 0)
  <2>0. sending = 0 /\ sending' = 0
    BY <1>0, <1>1, <1>3 DEF Ir!TypeOK
  <2>1. CASE ~is_receiving /\ edge
    <3>1. /\ is_receiving' = TRUE /\ currentBit' = 0 /\ currentByte' = {} /\ wait' = 3
          /\ heard' = heard
      BY <1>3, <2>1 DEF Ir!HalfBit, Ir!StartReception, Ir!FirstSample
    <3>2. Ir!TypeOK'
      BY <1>0, <1>1, <2>0, <3>1 DEF Ir!TypeOK, Ir!Idle, Ir!HalfBits, Ir!Bytes
    <3>3. ASSUME clean
          PROVE  Ir!InByte' \/ Ir!InEcho'
      <4>1. Ir!BeforeEdge \/ Ir!AfterByte \/ Ir!AfterEcho
        BY <2>1, <3>3 DEF Ir!IInv, Ir!InByte, Ir!InEcho
      <4>2. CASE Ir!BeforeEdge
        <5>1. pos = 1
          BY <1>0, <2>1, <4>2, CarrierAt DEF Ir!BeforeEdge
        <5>2. pos' = 2
          BY <1>0, <1>1, <5>1
        <5>3. currentByte' = {i \in data' : i < currentBit'}
          <6>1. \A i \in data : ~(i < 0)
            BY <1>0
          <6> QED  BY <1>1, <3>1, <6>1
        <5> QED  BY <3>1, <4>2, <5>2, <5>3 DEF Ir!BeforeEdge, Ir!InByte
      <4>3. CASE Ir!AfterByte
        <5>1. pos = 2 * BITS + 3
          <6>1. /\ pos \in Int /\ (pos >= 2 * BITS + 4 => ~Ir!Carrier(pos))
                /\ Ir!Carrier(pos)
            BY <1>0, <2>1, CarrierAt DEF Ir!TypeOK
          <6> QED  BY <1>0, <4>3, <6>1 DEF Ir!AfterByte
        <5>2. BITS - 1 \in 0 .. BITS - 1 /\ 2 * (BITS - 1) + 5 = pos
          BY <1>0, <5>1
        <5>3. BITS - 1 \in data
          <6>1. Ir!Carrier(2 * (BITS - 1) + 5) <=> BITS - 1 \in data
            BY <1>0, <5>2, CarrierAt
          <6> QED  BY <2>1, <5>2, <6>1
        <5>4. pos' = 2 * BITS + 4
          BY <1>0, <1>1, <5>1
        <5> QED  BY <1>0, <1>1, <3>1, <4>3, <5>3, <5>4 DEF Ir!AfterByte, Ir!InEcho
      <4>4. CASE Ir!AfterEcho
        BY <1>0, <2>1, <4>4, CarrierAt DEF Ir!AfterEcho, Ir!TypeOK
      <4> QED  BY <4>1, <4>2, <4>3, <4>4
    <3> QED  BY <1>1, <2>0, <3>2, <3>3 DEF Ir!IInv
  <2>2. CASE ~(~is_receiving /\ edge) /\ wait = 1
    <3>1. is_receiving /\ currentBit \in 0 .. BITS - 1
      BY <1>0, <2>2 DEF Ir!TypeOK
    <3>2. PICK on \in {Ir!Carrier(pos), Ir!Carrier(nxt)} : Ir!Sample(on, edge)
      BY <1>3, <2>2 DEF Ir!HalfBit
    <3> DEFINE byte == IF on THEN currentByte \cup {currentBit} ELSE currentByte
    <3>3. /\ is_receiving' \in BOOLEAN /\ (is_receiving' => wait' \in 1 .. 3)
          /\ (is_receiving' => currentBit' \in 0 .. BITS - 1)
          /\ (~is_receiving' => wait' = 0)
      <4>1. CASE currentBit + 1 < BITS
        BY <1>0, <3>1, <3>2, <4>1 DEF Ir!Sample
      <4>2. CASE ~(currentBit + 1 < BITS)
        <5>1. \/ is_receiving' = TRUE /\ currentBit' = 0 /\ wait' = 3
              \/ is_receiving' = FALSE /\ wait' = 0
          BY <3>2, <4>2 DEF Ir!Sample, Ir!StartReception, Ir!FirstSample
        <5>2. 0 \in 0 .. BITS - 1 /\ 3 \in 1 .. 3
          BY <1>0
        <5> QED  BY <5>1, <5>2
      <4> QED  BY <4>1, <4>2
    <3>4. Ir!TypeOK'
      BY <1>0, <1>1, <2>0, <3>3 DEF Ir!TypeOK, Ir!Idle, Ir!HalfBits, Ir!Bytes
    <3>5. ASSUME clean, Ir!InByte
          PROVE  Ir!InByte' \/ Ir!AfterByte'
      <4>1. /\ pos = 2 * currentBit + 4 /\ nxt = 2 * currentBit + 5
            /\ nxt <= 2 * BITS + 3
        BY <1>0, <2>2, <3>1, <3>5 DEF Ir!InByte
      <4>2. /\ Ir!Carrier(pos) <=> currentBit \in data
            /\ Ir!Carrier(nxt) <=> currentBit \in data
        BY <1>0, <3>1, <4>1, CarrierAt
      <4>3. ~edge /\ (on <=> currentBit \in data)
        BY <3>2, <4>2
      <4>4. byte = {i \in data : i < currentBit + 1}
        <5>1. \A i \in data :
                i \in Int /\ (i < currentBit + 1 <=> i < currentBit \/ i = currentBit)
          BY <1>0, <3>1
        <5>2. currentByte = {i \in data : i < currentBit}
          BY <3>5 DEF Ir!InByte
        <5> QED  BY <4>3, <5>1, <5>2
      <4>5. CASE currentBit + 1 < BITS
        <5>1. /\ is_receiving' = is_receiving /\ heard' = heard /\ wait' = 2
              /\ currentBit' = currentBit + 1 /\ currentByte' = byte
          BY <3>2, <4>5 DEF Ir!Sample
        <5>2. pos' = 2 * currentBit' + 5 - wait'
          BY <1>0, <1>1, <3>1, <4>1, <5>1
        <5>3. currentByte' = {i \in data' : i < currentBit'}
          BY <1>1, <4>4, <5>1
        <5> QED  BY <3>1, <3>5, <5>1, <5>2, <5>3 DEF Ir!InByte
      <4>6. CASE ~(currentBit + 1 < BITS)
        <5>1. is_receiving' = FALSE /\ heard' = Append(heard, byte)
          BY <3>2, <4>3, <4>6 DEF Ir!Sample
        <5>2. byte = data
          <6>1. currentBit + 1 = BITS
            BY <1>0, <3>1, <4>6
          <6>2. \A i \in data : i < BITS
            BY <1>0
          <6> QED  BY <4>4, <6>1, <6>2
        <5>3. heard' = <<data'>>
          BY <1>1, <3>5, <5>1, <5>2 DEF Ir!InByte
        <5>4. pos' = 2 * BITS + 3
          BY <1>0, <1>1, <3>1, <4>1, <4>6
        <5>5. pos' >= 2 * BITS + 3 /\ ~(pos' > 2 * BITS + 3)
          BY <1>0, <5>4
        <5> QED  BY <5>1, <5>3, <5>5 DEF Ir!AfterByte
      <4> QED  BY <4>5, <4>6
    <3>6. ASSUME clean, Ir!InEcho
          PROVE  Ir!InEcho' \/ Ir!AfterEcho'
      <4>1. /\ pos >= 2 * BITS + 4 /\ pos' >= 2 * BITS + 4
            /\ ~Ir!Carrier(pos) /\ ~Ir!Carrier(nxt)
        <5>1. pos \in Int /\ pos >= 2 * BITS + 4 /\ nxt \in Int /\ nxt >= 2 * BITS + 4
          BY <1>0, <3>6 DEF Ir!InEcho, Ir!TypeOK
        <5> QED  BY <1>0, <1>1, <5>1, CarrierAt
      <4>2. ~edge /\ byte = {}
        BY <3>2, <3>6, <4>1 DEF Ir!InEcho
      <4>3. CASE currentBit + 1 < BITS
        BY <1>1, <3>2, <3>6, <4>1, <4>2, <4>3 DEF Ir!Sample, Ir!InEcho
      <4>4. CASE ~(currentBit + 1 < BITS)
        <5>1. is_receiving' = FALSE /\ heard' = Append(heard, {})
          BY <3>2, <4>2, <4>4 DEF Ir!Sample
        <5>2. heard' = <<data', {}>> /\ BITS - 1 \in data'
          <6>1. heard = <<data>> /\ BITS - 1 \in data
            BY <3>6 DEF Ir!InEcho
          <6>2. Append(<<data>>, {}) = <<data, {}>>
            BY AppendOne
          <6> QED  BY <1>1, <5>1, <6>1, <6>2
        <5> QED  BY <4>1, <5>1, <5>2 DEF Ir!AfterEcho
      <4> QED  BY <4>3, <4>4
    <3>7. clean => Ir!InByte \/ Ir!InEcho
      BY <3>1 DEF Ir!IInv, Ir!BeforeEdge, Ir!AfterByte, Ir!AfterEcho
    <3> QED  BY <1>1, <2>0, <3>4, <3>5, <3>6, <3>7 DEF Ir!IInv
  <2>3. CASE ~(~is_receiving /\ edge) /\ wait # 1
    <3>1. /\ wait' = IF wait > 0 THEN wait - 1 ELSE 0
          /\ UNCHANGED <<is_receiving, currentBit, currentByte, heard>>
      BY <1>3, <2>3 DEF Ir!HalfBit
    <3>2. Ir!TypeOK'
      BY <1>0, <1>1, <2>0, <2>3, <3>1 DEF Ir!TypeOK, Ir!Idle, Ir!HalfBits, Ir!Bytes
    <3>3. CASE clean /\ Ir!BeforeEdge
      <4>1. pos = 0
        BY <1>0, <2>3, <3>3, CarrierAt DEF Ir!BeforeEdge
      <4> QED  BY <1>0, <1>1, <2>0, <3>1, <3>2, <3>3, <4>1 DEF Ir!IInv, Ir!BeforeEdge
    <3>4. CASE clean /\ Ir!InByte
      <4>1. wait \in 2 .. 3 /\ currentBit \in 0 .. BITS - 1 /\ wait' = wait - 1
        BY <1>0, <2>3, <3>1, <3>4 DEF Ir!TypeOK, Ir!InByte
      <4>2. pos' = 2 * currentBit' + 5 - wait'
        BY <1>0, <1>1, <3>1, <3>4, <4>1 DEF Ir!InByte
      <4> QED  BY <1>1, <2>0, <3>1, <3>2, <3>4, <4>1, <4>2 DEF Ir!IInv, Ir!InByte
    <3>5. CASE clean /\ Ir!AfterByte
      <4>1. pos = 2 * BITS + 3 => BITS - 1 \notin data
        <5>1. BITS - 1 \in 0 .. BITS - 1 /\ 2 * (BITS - 1) + 5 = 2 * BITS + 3
          BY <1>0
        <5>2. Ir!Carrier(2 * (BITS - 1) + 5) <=> BITS - 1 \in data
          BY <1>0, <5>1, CarrierAt
        <5>3. ASSUME pos = 2 * BITS + 3 PROVE ~Ir!Carrier(nxt)
          <6>1. nxt = 2 * BITS + 4 /\ nxt \in Int
            BY <1>0, <5>3
          <6> QED  BY <1>0, <6>1, CarrierAt
        <5> QED  BY <2>3, <3>5, <5>1, <5>2, <5>3 DEF Ir!AfterByte
      <4>2. pos' >= 2 * BITS + 3
        BY <1>0, <1>1, <3>5 DEF Ir!AfterByte, Ir!TypeOK
      <4>3. BITS - 1 \notin data
        BY <1>0, <3>5, <4>1 DEF Ir!AfterByte, Ir!TypeOK
      <4> QED  BY <1>1, <2>0, <3>1, <3>2, <3>5, <4>2, <4>3 DEF Ir!IInv, Ir!AfterByte
    <3>6. CASE clean /\ (Ir!InEcho \/ Ir!AfterEcho)
      <4>1. pos' >= 2 * BITS + 4
        BY <1>0, <1>1, <3>6 DEF Ir!InEcho, Ir!AfterEcho, Ir!TypeOK
      <4> QED  BY <1>1, <2>0, <3>1, <3>2, <3>6, <4>1
          DEF Ir!IInv, Ir!InEcho, Ir!AfterEcho
    <3> QED  BY <1>1, <3>2, <3>3, <3>4, <3>5, <3>6 DEF Ir!IInv
  <2> QED  BY <2>1, <2>2, <2>3
<1> QED  BY <1>2, <1>3

LEMMA LinkNext == Ir!IInv /\ [Ir!Next]_(Ir!vars) => Ir!IInv'
<1> SUFFICES ASSUME Ir!IInv, [Ir!Next]_(Ir!vars) PROVE Ir!IInv'
  OBVIOUS
<1>0. /\ BITS \in Nat \ {0} /\ Ir!Idle = 2 * BITS + 6
      /\ Ir!HalfBits = 2 * BITS + 6 /\ Ir!TypeOK
  BY SketchesAssumption
    DEF SketchesAssumption, Ir!IrAssumption, Ir!Idle, Ir!HalfBits, Ir!IInv
<1>1. ASSUME NEW byte \in Ir!Bytes, Ir!Transmit(byte)
      PROVE  Ir!IInv'
  <2>1. /\ pos' = 0 /\ data' = byte /\ heard' = <<>>
        /\ clean' = (~is_receiving /\ sending = 0)
        /\ UNCHANGED <<sending, is_receiving, currentBit, currentByte, wait>>
    BY <1>1 DEF Ir!Transmit, Ir!receiver
  <2>2. /\ data' \in Ir!Bytes' /\ pos' \in 0 .. Ir!Idle'
        /\ sending' \in 0 .. Ir!HalfBits' /\ clean' \in BOOLEAN
    BY <1>0, <2>1 DEF Ir!TypeOK, Ir!Bytes, Ir!Idle, Ir!HalfBits
  <2>3. Ir!TypeOK'
    BY <1>0, <2>1, <2>2 DEF Ir!TypeOK
  <2>4. clean' => sending' = 0 /\ Ir!BeforeEdge'
    <3>1. ASSUME clean' PROVE ~is_receiving /\ sending = 0
      BY <2>1, <3>1
    <3>2. ASSUME clean' PROVE sending' = 0 /\ ~is_receiving'
      BY <2>1, <3>1, <3>2
    <3>3. pos' \in 0 .. 1 /\ heard' = <<>>
      BY <2>1
    <3> QED  BY <3>2, <3>3 DEF Ir!BeforeEdge
  <2> QED  BY <2>3, <2>4 DEF Ir!IInv
<1>2. CASE Ir!IR_transmit
  <2>1. /\ sending' = Ir!HalfBits /\ is_receiving' = FALSE /\ wait' = 0
        /\ clean' = FALSE
        /\ UNCHANGED <<data, pos>>
    BY <1>2 DEF Ir!IR_transmit
  <2>2. data' \in Ir!Bytes' /\ pos' \in 0 .. Ir!Idle' /\ sending' \in 0 .. Ir!HalfBits'
    BY <1>0, <2>1 DEF Ir!TypeOK, Ir!Bytes, Ir!Idle, Ir!HalfBits
  <2> QED  BY <2>1, <2>2 DEF Ir!IInv, Ir!TypeOK
<1>3. CASE UNCHANGED Ir!vars
  <2>1. Ir!TypeOK'
    BY <1>0, <1>3 DEF Ir!vars, Ir!receiver, Ir!TypeOK, Ir!Bytes, Ir!Idle, Ir!HalfBits
  <2> QED
    BY <1>3, <2>1
      DEF Ir!vars, Ir!receiver, Ir!IInv, Ir!BeforeEdge, Ir!InByte, Ir!AfterByte,
          Ir!InEcho, Ir!AfterEcho
<1> QED  BY <1>1, <1>2, <1>3, LinkHalfBit DEF Ir!Next

LEMMA LinkHeard == Ir!IInv => Ir!HeardAsSent
<1> SUFFICES ASSUME Ir!IInv, clean PROVE Ir!HeardAsSent
  BY DEF Ir!HeardAsSent
<1>1. BITS \in Nat \ {0} /\ Ir!Idle = 2 * BITS + 6 /\ Ir!TypeOK
  BY SketchesAssumption
    DEF SketchesAssumption, Ir!IrAssumption, Ir!Idle, Ir!HalfBits, Ir!IInv
<1>2. CASE Ir!BeforeEdge
  BY <1>1, <1>2 DEF Ir!BeforeEdge, Ir!HeardAsSent
<1>3. CASE Ir!InByte
  <2>1. pos < Ir!Idle
    BY <1>1, <1>3 DEF Ir!TypeOK, Ir!InByte
  <2> QED  BY <1>1, <1>3, <2>1 DEF Ir!InByte, Ir!HeardAsSent
<1>4. CASE Ir!AfterByte
  <2>1. pos = Ir!Idle => Ir!Echoed = <<data>>
    BY <1>1, <1>4 DEF Ir!AfterByte, Ir!Echoed
  <2> QED  BY <1>4, <2>1 DEF Ir!AfterByte, Ir!HeardAsSent
<1>5. CASE Ir!InEcho \/ Ir!AfterEcho
  BY <1>5 DEF Ir!InEcho, Ir!AfterEcho, Ir!Echoed, Ir!HeardAsSent
<1> QED  BY <1>2, <1>3, <1>4, <1>5 DEF Ir!IInv

\* A receiver hears each byte once, and a 0 after it if its last bit is 1.
THEOREM BytesHeardOnce == Spec => []IrHeardAsSent
<1>1. Ir!Spec => []Ir!IInv
  BY LinkInit, LinkNext, PTL DEF Ir!Spec
<1>2. Ir!IInv => IrHeardAsSent
  BY LinkHeard DEF IrHeardAsSent
<1> QED  BY IrSpec, <1>1, <1>2, PTL

-----------------------------------------------------------------------------
(* The cooperative scheduler (Scheduler).                                  *)

SketchTypeInv ==
  /\ remaining_time \in [Sketch!Tasks -> Int]
  /\ pass_elapsed \in Nat /\ idle_time \in Nat /\ phase \in Nat
  /\ running \in Sketch!Tasks \cup {Sketch!None}

\* While the loop sleeps no task is due before it wakes up.
SketchSleepInv ==
  idle_time > 0 =>
    pass_elapsed = 0 /\ running = Sketch!None
    /\ \A i \in Sketch!Tasks : remaining_time[i] >= idle_time

\* It is x milliseconds since every task was last on time, and since then the tasks of C
\* have been called, once each.
SketchLate(C, x) ==
  /\ x <= Cardinality(C) * MAXRUN
  /\ running # Sketch!None => running \in C /\ x <= (Cardinality(C) - 1) * MAXRUN
  /\ \A i \in C : Sketch!Left(i) >= Periods[i] - x
  /\ \A i \in Sketch!Tasks \ C : Sketch!Left(i) >= 0 - x

SketchIInv == SketchTypeInv /\ SketchSleepInv
              /\ \E C \in SUBSET Sketch!Tasks, x \in Nat : SketchLate(C, x)

LEMMA SketchConstants ==
  ASSUME Sketch!SchedulerAssumption
  PROVE  /\ MAXTASKS \in Nat \ {0} /\ MAXRUN \in Nat /\ Hyperperiod \in Nat \ {0}
         /\ Sketch!Tasks \in SUBSET Nat /\ Sketch!None \notin Sketch!Tasks
         /\ Delays \in [Sketch!Tasks -> Nat] /\ Periods \in [Sketch!Tasks -> Nat \ {0}]
BY DEF Sketch!SchedulerAssumption, Sketch!Tasks, Sketch!None

\* The tasks are as many as there are, and what is not all of them is fewer.
LEMMA SketchCounting ==
  ASSUME Sketch!SchedulerAssumption, NEW C \in SUBSET Sketch!Tasks
  PROVE  /\ Cardinality(C) \in 0 .. MAXTASKS
         /\ Cardinality(C) = MAXTASKS => C = Sketch!Tasks
         /\ \A f \in Sketch!Tasks \ C : Cardinality(C \cup {f}) = Cardinality(C) + 1
         /\ \A f \in Sketch!Tasks : Cardinality({f}) = 1
         /\ C = {} => Cardinality(C) = 0
<1>1. MAXTASKS \in Nat
  BY SketchConstants
<1>2. IsFiniteSet(Sketch!Tasks) /\ Cardinality(Sketch!Tasks) = MAXTASKS
  <2>1. MAXTASKS \in Int /\ 1 \in Int /\ MAXTASKS >= 1
    BY SketchConstants
  <2>2. IsFiniteSet(1 .. MAXTASKS) /\ Cardinality(1 .. MAXTASKS) = MAXTASKS
    BY <2>1, FS_Interval
  <2> QED  BY <2>2 DEF Sketch!Tasks
<1>3. IsFiniteSet(C) /\ Cardinality(C) <= Cardinality(Sketch!Tasks)
      /\ (Cardinality(C) = Cardinality(Sketch!Tasks) => C = Sketch!Tasks)
  BY <1>2, FS_Subset
<1>4. Cardinality(C) \in Nat
  BY <1>3, FS_CardinalityType
<1>5. \A f \in Sketch!Tasks \ C : Cardinality(C \cup {f}) = Cardinality(C) + 1
  BY <1>3, FS_AddElement
<1>6. \A f \in Sketch!Tasks : Cardinality({f}) = 1
  BY FS_Singleton
<1>7. C = {} => Cardinality(C) = 0
  BY FS_EmptySet
<1>8. Cardinality(C) \in 0 .. MAXTASKS
  BY <1>1, <1>2, <1>3, <1>4
<1> QED  BY <1>2, <1>3, <1>5, <1>6, <1>7, <1>8

LEMMA SketchLateInit ==
  ASSUME Sketch!SchedulerAssumption, Sketch!Init PROVE SketchIInv
<1> USE SketchConstants
<1>1. /\ remaining_time = [i \in Sketch!Tasks |-> Delays[i]]
      /\ pass_elapsed = 0 /\ running = Sketch!None /\ idle_time = 0 /\ phase = 0
  BY DEF Sketch!Init
<1>2. SketchTypeInv
  BY <1>1 DEF SketchTypeInv
<1>3. SketchSleepInv
  BY <1>1 DEF SketchSleepInv
<1>4. SketchLate({}, 0)
  <2>1. \A i \in Sketch!Tasks : Sketch!Left(i) = Delays[i] /\ Delays[i] \in Nat
    BY <1>1 DEF Sketch!Left
  <2>2. Cardinality({}) * MAXRUN = 0
    BY SketchCounting, {} \in SUBSET Sketch!Tasks
  <2> QED  BY <1>1, <2>1, <2>2 DEF SketchLate
<1> QED  BY <1>2, <1>3, <1>4, {} \in SUBSET Sketch!Tasks, 0 \in Nat DEF SketchIInv

\* The first of the tasks that are ready.
LEMMA SketchFirstIs ==
  ASSUME Sketch!SchedulerAssumption, SketchTypeInv, Sketch!Ready # {}
  PROVE  Sketch!First \in Sketch!Tasks /\ Sketch!Left(Sketch!First) <= 0
<1>1. Sketch!Ready \in SUBSET Nat
  BY SketchConstants DEF Sketch!Ready
<1>2. \E m \in Sketch!Ready : \A k \in Sketch!Ready : m <= k
  BY <1>1, LeastOne
<1>3. Sketch!First \in Sketch!Ready
  BY <1>2 DEF Sketch!First, Sketch!Min
<1> QED  BY <1>3 DEF Sketch!Ready

\* Without one the loop sleeps until the first is due.
LEMMA SketchIdleTimeIs ==
  ASSUME Sketch!SchedulerAssumption, SketchTypeInv, Sketch!Ready = {}
  PROVE  Sketch!IdleTime \in Nat
         /\ \A i \in Sketch!Tasks : Sketch!Left(i) >= Sketch!IdleTime
<1> DEFINE S == {Sketch!Left(i) : i \in Sketch!Tasks}
<1>1. \A i \in Sketch!Tasks : Sketch!Left(i) \in Int /\ Sketch!Left(i) > 0
  BY DEF Sketch!Ready, Sketch!Left, SketchTypeInv
<1>2. S \in SUBSET Nat
  BY <1>1
<1>3. S # {}
  <2>1. 1 \in Sketch!Tasks
    BY SketchConstants DEF Sketch!Tasks
  <2> QED  BY <2>1
<1>4. PICK m \in S : \A k \in S : m <= k
  BY <1>2, <1>3, LeastOne
<1>5. Sketch!Min(S) \in S /\ \A k \in S : Sketch!Min(S) <= k
  BY <1>4 DEF Sketch!Min
<1>6. Sketch!IdleTime = Sketch!Min(S)
  BY DEF Sketch!IdleTime
<1> QED  BY <1>2, <1>5, <1>6

LEMMA SketchLateDispatch ==
  ASSUME Sketch!SchedulerAssumption, Sketch!Schedulable, SketchIInv, Sketch!Scheduler_Dispatch
  PROVE  SketchIInv'
<1> USE SketchConstants
<1>0. /\ remaining_time \in [Sketch!Tasks -> Int] /\ pass_elapsed \in Nat /\ phase \in Nat
      /\ \A i \in Sketch!Tasks : Sketch!Left(i) \in Int
  BY DEF SketchIInv, SketchTypeInv, Sketch!Left
<1>1. /\ running = Sketch!None /\ idle_time = 0
      /\ remaining_time' = [i \in Sketch!Tasks |->
           IF Sketch!Ready # {} /\ i = Sketch!First THEN Sketch!NextRun(i)
           ELSE Sketch!Left(i)]
      /\ running' = IF Sketch!Ready # {} THEN Sketch!First ELSE Sketch!None
      /\ idle_time' = Sketch!IdleTime
      /\ pass_elapsed' = 0
      /\ phase' = (phase + pass_elapsed) % Hyperperiod
  BY DEF Sketch!Scheduler_Dispatch
<1>2. phase' \in Nat
  <2>1. phase + pass_elapsed \in Int
    BY <1>0
  <2>2. (phase + pass_elapsed) % Hyperperiod \in 0 .. Hyperperiod - 1
    BY <2>1, Quotient
  <2> QED  BY <1>1, <2>2
<1>3. \A i \in Sketch!Tasks : Sketch!Left(i)' =
        IF Sketch!Ready # {} /\ i = Sketch!First THEN Sketch!Left(i) + Periods[i]
        ELSE Sketch!Left(i)
  BY <1>0, <1>1 DEF Sketch!Left, Sketch!NextRun
<1>4. PICK C \in SUBSET Sketch!Tasks, x \in Nat : SketchLate(C, x)
  BY DEF SketchIInv
<1>5. /\ x <= Cardinality(C) * MAXRUN
      /\ \A i \in C : Sketch!Left(i) >= Periods[i] - x
      /\ \A i \in Sketch!Tasks \ C : Sketch!Left(i) >= 0 - x
  BY <1>4 DEF SketchLate
<1>6. remaining_time' \in [Sketch!Tasks -> Int]
  BY <1>0, <1>1 DEF Sketch!NextRun
<1>7. CASE Sketch!Ready = {}
  <2>1. Sketch!IdleTime \in Nat
        /\ \A i \in Sketch!Tasks : Sketch!Left(i) >= Sketch!IdleTime
    BY <1>7, SketchIdleTimeIs DEF SketchIInv
  <2>2. SketchTypeInv'
    BY <1>1, <1>2, <1>6, <1>7, <2>1 DEF SketchTypeInv
  <2>3. SketchSleepInv'
    <3>1. \A i \in Sketch!Tasks : remaining_time'[i] = Sketch!Left(i)
      BY <1>1, <1>7
    <3> QED  BY <1>1, <1>7, <2>1, <3>1 DEF SketchSleepInv
  <2>4. SketchLate(C, x)'
    BY <1>1, <1>3, <1>5, <1>7 DEF SketchLate
  <2> QED  BY <2>2, <2>3, <2>4 DEF SketchIInv
<1>8. CASE Sketch!Ready # {}
  <2>1. Sketch!First \in Sketch!Tasks /\ Sketch!Left(Sketch!First) <= 0
    BY <1>8, SketchFirstIs DEF SketchIInv
  <2>2. idle_time' = 0 /\ running' = Sketch!First
    BY <1>1, <1>8 DEF Sketch!IdleTime
  <2>3. SketchTypeInv'
    BY <1>1, <1>2, <1>6, <2>1, <2>2 DEF SketchTypeInv
  <2>4. SketchSleepInv'
    BY <2>2 DEF SketchSleepInv
  <2>5. \A i \in Sketch!Tasks : Sketch!Left(i)' =
          IF i = Sketch!First THEN Sketch!Left(i) + Periods[i] ELSE Sketch!Left(i)
    BY <1>3, <1>8
  <2>f. PICK f \in Sketch!Tasks : f = Sketch!First
    BY <2>1
  <2>6. \E D \in SUBSET Sketch!Tasks, y \in Nat : SketchLate(D, y)'
    <3>1. CASE f \notin C
      <4>1. Cardinality(C \cup {f}) = Cardinality(C) + 1
            /\ Cardinality(C) \in 0 .. MAXTASKS
        BY <2>f, <2>1, <3>1, SketchCounting
      <4>2. PICK D \in SUBSET Sketch!Tasks : D = C \cup {f}
        BY <2>f, <2>1
      <4>3. (Cardinality(D) - 1) * MAXRUN = Cardinality(C) * MAXRUN
        BY <4>1, <4>2
      <4>4. x <= Cardinality(D) * MAXRUN
        <5>1. Cardinality(D) * MAXRUN = Cardinality(C) * MAXRUN + MAXRUN
              /\ Cardinality(C) * MAXRUN \in Nat
          BY <4>1, <4>2
        <5> QED  BY <1>5, <5>1
      <4>5. \A i \in D : Sketch!Left(i)' >= Periods[i] - x
        <5>1. f \in Sketch!Tasks \ C /\ Periods[f] \in Int
          BY <2>f, <2>1, <3>1
        <5>2. Sketch!Left(f)' = Sketch!Left(f) + Periods[f]
          BY <2>f, <2>5, <5>1
        <5>3. Sketch!Left(f) >= 0 - x /\ Sketch!Left(f) \in Int
          BY <1>0, <1>5, <5>1
        <5>4. Sketch!Left(f)' >= Periods[f] - x
          BY <5>1, <5>2, <5>3
        <5>5. \A i \in C : Sketch!Left(i)' = Sketch!Left(i)
          BY <2>f, <2>5, <3>1
        <5> QED  BY <1>5, <4>2, <5>4, <5>5
      <4>6. \A i \in Sketch!Tasks \ D : Sketch!Left(i)' >= 0 - x
        BY <2>f, <1>5, <2>5, <4>2
      <4>7. running' \in D /\ x <= (Cardinality(D) - 1) * MAXRUN
        BY <2>f, <1>5, <2>2, <4>2, <4>3
      <4>8. SketchLate(D, x)'
        BY <4>4, <4>5, <4>6, <4>7 DEF SketchLate
      <4> QED  BY <4>8
    <3>2. CASE f \in C
      \* It has come round: so have all, and none of them is late.
      <4>1. Cardinality(C) \in 0 .. MAXTASKS
            /\ (Cardinality(C) = MAXTASKS => C = Sketch!Tasks)
        BY SketchCounting
      <4>2. x >= Periods[f] /\ Periods[f] \in Nat \ {0}
        BY <2>f, <1>0, <1>5, <2>1, <3>2
      <4>3. Periods[f] >= MAXTASKS * MAXRUN
        BY <2>f, <2>1 DEF Sketch!Schedulable
      <4>4. Cardinality(C) = MAXTASKS /\ x = MAXTASKS * MAXRUN
        <5> DEFINE n == Cardinality(C)
                   a == n * MAXRUN
                   b == MAXTASKS * MAXRUN
        <5>1. n \in Nat /\ n <= MAXTASKS /\ a \in Nat /\ b \in Nat
          BY <4>1
        <5>2. b - a = (MAXTASKS - n) * MAXRUN
          BY <4>1
        <5>3. n < MAXTASKS => b - a >= MAXRUN
          <6> SUFFICES ASSUME n < MAXTASKS PROVE b - a >= MAXRUN
            OBVIOUS
          <6>1. PICK k \in Nat : MAXTASKS - n = k + 1
            BY <5>1, MAXTASKS - n - 1 \in Nat, MAXTASKS - n = (MAXTASKS - n - 1) + 1
          <6>2. (k + 1) * MAXRUN = k * MAXRUN + MAXRUN /\ k * MAXRUN \in Nat
            OBVIOUS
          <6> QED  BY <5>2, <6>1, <6>2
        <5>4. x <= a /\ x >= b /\ x >= 1
          BY <1>5, <4>2, <4>3
        <5>5. MAXRUN = 0 => a = 0
          BY <5>1
        <5> HIDE DEF a, b, n
        <5>6. n = MAXTASKS
          BY <5>1, <5>3, <5>4, <5>5
        <5>7. x = b
          BY <5>1, <5>3, <5>4, <5>6 DEF a, b
        <5> QED  BY <5>6, <5>7 DEF n, b
      <4>5. \A i \in Sketch!Tasks : Sketch!Left(i) >= 0
        <5>1. \A i \in Sketch!Tasks : Periods[i] - x >= 0 /\ Periods[i] \in Int
          BY <4>4 DEF Sketch!Schedulable
        <5> QED  BY <1>0, <1>5, <4>1, <4>4, <5>1
      <4>6. PICK D \in SUBSET Sketch!Tasks : D = {f}
        BY <2>f, <2>1
      <4>7. Cardinality(D) = 1
        BY <2>f, <2>1, <4>6, SketchCounting, {} \in SUBSET Sketch!Tasks
      <4>8. 0 <= Cardinality(D) * MAXRUN /\ 0 <= (Cardinality(D) - 1) * MAXRUN
        BY <4>7
      <4>9. Sketch!Left(f)' >= Periods[f] - 0
        <5>1. f \in Sketch!Tasks /\ Periods[f] \in Int
          BY <2>f, <2>1
        <5>2. Sketch!Left(f)' = Sketch!Left(f) + Periods[f]
          BY <2>f, <2>5, <5>1
        <5>3. Sketch!Left(f) >= 0 /\ Sketch!Left(f) \in Int
          BY <1>0, <4>5, <5>1
        <5> QED  BY <5>1, <5>2, <5>3
      <4>10. \A i \in Sketch!Tasks \ D : Sketch!Left(i)' >= 0 - 0
        BY <2>f, <2>5, <4>5, <4>6
      <4>11. SketchLate(D, 0)'
        BY <2>f, <2>2, <4>6, <4>8, <4>9, <4>10 DEF SketchLate
      <4> QED  BY <4>11, 0 \in Nat
    <3> QED  BY <3>1, <3>2
  <2> QED  BY <2>3, <2>4, <2>6 DEF SketchIInv
<1> QED  BY <1>7, <1>8

LEMMA SketchLateReturn ==
  ASSUME Sketch!SchedulerAssumption, SketchIInv, NEW ms \in 0 .. MAXRUN, Sketch!Return(ms)
  PROVE  SketchIInv'
<1> USE SketchConstants
<1>1. /\ running # Sketch!None /\ running' = Sketch!None
         /\ pass_elapsed' = pass_elapsed + ms
      /\ UNCHANGED <<remaining_time, idle_time, phase>>
  BY DEF Sketch!Return
<1>2. /\ remaining_time \in [Sketch!Tasks -> Int] /\ pass_elapsed \in Nat
      /\ \A i \in Sketch!Tasks : Sketch!Left(i) \in Int
  BY DEF SketchIInv, SketchTypeInv, Sketch!Left
<1>3. PICK C \in SUBSET Sketch!Tasks, x \in Nat : SketchLate(C, x)
  BY DEF SketchIInv
<1>4. /\ x <= (Cardinality(C) - 1) * MAXRUN
      /\ \A i \in C : Sketch!Left(i) >= Periods[i] - x
      /\ \A i \in Sketch!Tasks \ C : Sketch!Left(i) >= 0 - x
  BY <1>1, <1>3 DEF SketchLate
<1>5. \A i \in Sketch!Tasks : Sketch!Left(i)' = Sketch!Left(i) - ms
  BY <1>1, <1>2 DEF Sketch!Left
<1>6. PICK y \in Nat : y = x + ms
  OBVIOUS
<1>7. y <= Cardinality(C) * MAXRUN
  <2>1. Cardinality(C) \in Nat
    BY SketchCounting
  <2>2. (Cardinality(C) - 1) * MAXRUN = Cardinality(C) * MAXRUN - MAXRUN
        /\ Cardinality(C) * MAXRUN \in Int
    BY <2>1
  <2> QED  BY <1>4, <1>6, <2>2
<1>8. SketchLate(C, y)'
  <2>1. \A i \in C : Sketch!Left(i)' >= Periods[i] - y
    BY <1>2, <1>4, <1>5, <1>6
  <2>2. \A i \in Sketch!Tasks \ C : Sketch!Left(i)' >= 0 - y
    BY <1>2, <1>4, <1>5, <1>6
  <2> QED  BY <1>1, <1>7, <2>1, <2>2 DEF SketchLate
<1>9. SketchTypeInv' /\ SketchSleepInv'
  BY <1>1 DEF SketchIInv, SketchTypeInv, SketchSleepInv
<1> QED  BY <1>8, <1>9 DEF SketchIInv

LEMMA SketchLateSleep ==
  ASSUME Sketch!SchedulerAssumption, SketchIInv, Sketch!Sleep PROVE SketchIInv'
<1> USE SketchConstants
<1>1. /\ running = Sketch!None /\ idle_time > 0 /\ idle_time' = 0
         /\ pass_elapsed' = pass_elapsed + idle_time
      /\ UNCHANGED <<remaining_time, running, phase>>
  BY DEF Sketch!Sleep
<1>2. /\ remaining_time \in [Sketch!Tasks -> Int] /\ pass_elapsed = 0 /\ idle_time \in Nat
      /\ \A i \in Sketch!Tasks : remaining_time[i] >= idle_time
  BY <1>1 DEF SketchIInv, SketchTypeInv, SketchSleepInv
<1>3. \A i \in Sketch!Tasks : Sketch!Left(i)' >= 0
  BY <1>1, <1>2 DEF Sketch!Left
<1>4. PICK D \in SUBSET Sketch!Tasks : D = {}
  OBVIOUS
<1>5. SketchLate(D, 0)'
  <2>1. Cardinality(D) * MAXRUN = 0
    BY <1>4, SketchCounting
  <2>2. \A i \in Sketch!Tasks \ D : Sketch!Left(i)' >= 0 - 0
    BY <1>3
  <2> QED  BY <1>1, <1>4, <2>1, <2>2 DEF SketchLate
<1>6. SketchTypeInv' /\ SketchSleepInv'
  BY <1>1 DEF SketchIInv, SketchTypeInv, SketchSleepInv
<1> QED  BY <1>5, <1>6, 0 \in Nat DEF SketchIInv

LEMMA SketchLateStep ==
  ASSUME Sketch!SchedulerAssumption, Sketch!Schedulable, SketchIInv, [Sketch!Next]_(Sketch!vars)
  PROVE  SketchIInv'
<1>1. CASE UNCHANGED Sketch!vars
  <2>1. UNCHANGED <<remaining_time, pass_elapsed, running, idle_time, phase>>
    BY <1>1 DEF Sketch!vars
  <2>2. \A i : Sketch!Left(i)' = Sketch!Left(i)
    BY <2>1 DEF Sketch!Left
  <2>3. \A C, x : SketchLate(C, x) => SketchLate(C, x)'
    BY <2>1, <2>2 DEF SketchLate
  <2> QED  BY <2>1, <2>3 DEF SketchIInv, SketchTypeInv, SketchSleepInv
<1> QED  BY <1>1, SketchLateDispatch, SketchLateReturn, SketchLateSleep DEF Sketch!Next

LEMMA SketchLateInTime ==
  ASSUME Sketch!SchedulerAssumption, Sketch!Schedulable, SketchIInv
  PROVE  Sketch!CalledInTime
<1> USE SketchConstants
<1> SUFFICES ASSUME NEW i \in Sketch!Tasks PROVE Sketch!Left(i) > -Periods[i]
  BY DEF Sketch!CalledInTime
<1>1. PICK C \in SUBSET Sketch!Tasks, x \in Nat : SketchLate(C, x)
  BY DEF SketchIInv
<1> DEFINE n == Cardinality(C)
           a == n * MAXRUN
           b == MAXTASKS * MAXRUN
<1>2. n \in 0 .. MAXTASKS /\ (n = MAXTASKS => C = Sketch!Tasks) /\ a \in Nat /\ b \in Nat
  BY SketchCounting
<1>3. x <= a /\ b <= Periods[i] /\ Periods[i] \in Nat \ {0} /\ Sketch!Left(i) \in Int
  BY <1>1 DEF SketchLate, Sketch!Schedulable, SketchIInv, SketchTypeInv, Sketch!Left
<1>4. b - a = (MAXTASKS - n) * MAXRUN
  BY <1>2
<1>5. CASE i \in C
  <2>1. Sketch!Left(i) >= Periods[i] - x
    BY <1>1, <1>5 DEF SketchLate
  <2>2. a <= b
    BY <1>2, <1>4
  <2> HIDE DEF a, b, n
  <2> QED  BY <1>2, <1>3, <2>1, <2>2
<1>6. CASE i \notin C
  <2>1. Sketch!Left(i) >= 0 - x
    BY <1>1, <1>6 DEF SketchLate
  <2>2. n < MAXTASKS
    BY <1>2, <1>6
  <2>3. b - a >= MAXRUN
    <3>1. PICK k \in Nat : MAXTASKS - n = k + 1
      BY <1>2, <2>2, MAXTASKS - n - 1 \in Nat, MAXTASKS - n = (MAXTASKS - n - 1) + 1
    <3>2. (k + 1) * MAXRUN = k * MAXRUN + MAXRUN /\ k * MAXRUN \in Nat
      OBVIOUS
    <3> QED  BY <1>4, <3>1, <3>2
  <2>4. MAXRUN = 0 => a = 0
    BY <1>2
  <2> HIDE DEF a, b, n
  <2> QED  BY <1>2, <1>3, <2>1, <2>3, <2>4
<1> QED  BY <1>5, <1>6

-----------------------------------------------------------------------------
\* The phase.

SketchPhaseInv == SketchTypeInv /\ Sketch!PhaseKept

LEMMA SketchPhaseInit ==
  ASSUME Sketch!SchedulerAssumption, Sketch!Init PROVE SketchPhaseInv
<1> USE SketchConstants
<1>1. SketchTypeInv
  BY SketchLateInit DEF SketchIInv
<1>2. \A i \in Sketch!Tasks : remaining_time[i] + phase - Delays[i] = 0
  BY DEF Sketch!Init
<1>3. \A i \in Sketch!Tasks : 0 % Periods[i] = 0
  BY OwnRemainder, \A i \in Sketch!Tasks : 0 \in 0 .. Periods[i] - 1
<1> QED  BY <1>1, <1>2, <1>3 DEF SketchPhaseInv, Sketch!PhaseKept

LEMMA SketchPhaseStep ==
  ASSUME Sketch!SchedulerAssumption, SketchPhaseInv, [Sketch!Next]_(Sketch!vars)
  PROVE  Sketch!PhaseKept'
<1> USE SketchConstants
<1>1. CASE Sketch!Scheduler_Dispatch
  <2>1. /\ remaining_time' = [i \in Sketch!Tasks |->
             IF Sketch!Ready # {} /\ i = Sketch!First THEN Sketch!NextRun(i)
             ELSE Sketch!Left(i)]
        /\ phase' = (phase + pass_elapsed) % Hyperperiod
    BY <1>1 DEF Sketch!Scheduler_Dispatch
  <2>2. remaining_time \in [Sketch!Tasks -> Int] /\ pass_elapsed \in Nat /\ phase \in Nat
    BY DEF SketchPhaseInv, SketchTypeInv
  <2> SUFFICES ASSUME NEW i \in Sketch!Tasks
               PROVE  (remaining_time'[i] + phase' - Delays[i]) % Periods[i] = 0
    BY DEF Sketch!PhaseKept
  <2>3. PICK p \in Nat \ {0}, d \in Nat, r \in Int : p = Periods[i] /\ d = Delays[i]
             /\ r = remaining_time[i]
    BY <2>2
  <2>4. PICK k \in Int : Hyperperiod = p * k
    <3>1. Hyperperiod % p = 0
      BY <2>3 DEF Sketch!SchedulerAssumption
    <3>2. \A a \in Int, b \in Nat \ {0} : a = b * (a \div b) + (a % b) /\ a \div b \in Int
      BY Quotient
    <3>3. Hyperperiod = p * (Hyperperiod \div p) + (Hyperperiod % p)
          /\ Hyperperiod \div p \in Int
      BY <3>2, Hyperperiod \in Int
    <3>4. PICK k \in Int : k = Hyperperiod \div p
      BY <3>3
    <3>5. p * k \in Int
      OBVIOUS
    <3>6. p * (Hyperperiod \div p) = p * k
      BY <3>4
    <3>7. Hyperperiod = p * k
      BY <3>1, <3>3, <3>5, <3>6
    <3> QED  BY <3>7
  <2>5. PICK m \in Int : phase + pass_elapsed = Hyperperiod * m + phase'
    <3>1. phase + pass_elapsed \in Int
      BY <2>2
    <3>2. /\ phase + pass_elapsed
               = Hyperperiod * ((phase + pass_elapsed) \div Hyperperiod) + phase'
          /\ (phase + pass_elapsed) \div Hyperperiod \in Int
      BY <2>1, <3>1, Quotient
    <3> QED  BY <3>2
  <2>6. PICK s \in {0, 1} : remaining_time'[i] = (r - pass_elapsed) + p * s
    <3>1. CASE Sketch!Ready # {} /\ i = Sketch!First
      BY <2>1, <2>2, <2>3, <3>1 DEF Sketch!NextRun, Sketch!Left
    <3>2. CASE ~(Sketch!Ready # {} /\ i = Sketch!First)
      BY <2>1, <2>2, <2>3, <3>2 DEF Sketch!Left
    <3> QED  BY <3>1, <3>2
  <2>7. PICK e \in Int, ph \in Int, ph2 \in Int : e = pass_elapsed /\ ph = phase
             /\ ph2 = phase'
    <3>1. phase' \in Int
      BY <2>1, <2>2, Quotient, phase + pass_elapsed \in Int
    <3> QED  BY <2>2, <3>1
  <2>8. PICK c1 \in Int : c1 = p * (k * m)
    OBVIOUS
  <2>9. Hyperperiod * m = c1
    BY <2>4, <2>8
  <2>10. PICK q \in Int : q = s - k * m
    OBVIOUS
  <2>11. p * q = p * s - c1 /\ p * s \in Int
    BY <2>8, <2>10
  <2>12. (remaining_time'[i] + phase' - Delays[i]) = (r + ph - d) + p * q
    <3>1. ph + e = c1 + ph2
      BY <2>5, <2>7, <2>9
    <3>2. PICK ps \in Int : ps = p * s
      BY <2>11
    <3>3. ((r - e) + ps) + ph2 - d = (r + ph - d) + (ps - c1)
      BY <3>1
    <3> QED  BY <2>3, <2>6, <2>7, <2>11, <3>2, <3>3
  <2>13. ((r + ph - d) + p * q) % p = (r + ph - d) % p
    BY Periodicity, r + ph - d \in Int
  <2>14. (r + ph - d) % p = 0
    BY <2>3, <2>7 DEF SketchPhaseInv, Sketch!PhaseKept
  <2> QED  BY <2>3, <2>12, <2>13, <2>14
<1>2. CASE UNCHANGED <<remaining_time, phase>>
  BY <1>2 DEF SketchPhaseInv, Sketch!PhaseKept
<1> QED  BY <1>1, <1>2 DEF Sketch!Next, Sketch!Sleep, Sketch!Return, Sketch!vars

LEMMA SketchTypeStep ==
  ASSUME Sketch!SchedulerAssumption, SketchTypeInv, [Sketch!Next]_(Sketch!vars)
  PROVE  SketchTypeInv'
<1> USE SketchConstants
<1>1. CASE Sketch!Scheduler_Dispatch
  <2>1. /\ remaining_time' = [i \in Sketch!Tasks |->
             IF Sketch!Ready # {} /\ i = Sketch!First THEN Sketch!NextRun(i)
             ELSE Sketch!Left(i)]
        /\ running' = IF Sketch!Ready # {} THEN Sketch!First ELSE Sketch!None
        /\ idle_time' = Sketch!IdleTime /\ pass_elapsed' = 0
        /\ phase' = (phase + pass_elapsed) % Hyperperiod
    BY <1>1 DEF Sketch!Scheduler_Dispatch
  <2>2. remaining_time' \in [Sketch!Tasks -> Int]
    BY <2>1 DEF SketchTypeInv, Sketch!NextRun, Sketch!Left
  <2>3. phase' \in Nat
    <3>1. phase + pass_elapsed \in Int
      BY DEF SketchTypeInv
    <3>2. (phase + pass_elapsed) % Hyperperiod \in 0 .. Hyperperiod - 1
      BY <3>1, Quotient
    <3> QED  BY <2>1, <3>2
  <2>4. idle_time' \in Nat
    BY <2>1, SketchIdleTimeIs DEF Sketch!IdleTime
  <2>5. running' \in Sketch!Tasks \cup {Sketch!None}
    BY <2>1, SketchFirstIs
  <2> QED  BY <2>1, <2>2, <2>3, <2>4, <2>5 DEF SketchTypeInv
<1>2. CASE Sketch!Sleep
  BY <1>2 DEF Sketch!Sleep, SketchTypeInv
<1>3. ASSUME NEW ms \in 0 .. MAXRUN, Sketch!Return(ms) PROVE SketchTypeInv'
  BY <1>3 DEF Sketch!Return, SketchTypeInv
<1>4. CASE UNCHANGED Sketch!vars
  BY <1>4 DEF Sketch!vars, SketchTypeInv
<1> QED  BY <1>1, <1>2, <1>3, <1>4 DEF Sketch!Next

\* However late a task was called, its later calls are due in the phase of its delay.
THEOREM SketchLatenessForgotten ==
  ASSUME Sketch!SchedulerAssumption PROVE Sketch!Spec => []Sketch!PhaseKept
<1>1. ASSUME SketchPhaseInv, [Sketch!Next]_(Sketch!vars) PROVE SketchPhaseInv'
  BY <1>1, SketchPhaseStep, SketchTypeStep DEF SketchPhaseInv
<1>2. SketchPhaseInv => Sketch!PhaseKept
  BY DEF SketchPhaseInv
<1> QED  BY <1>1, <1>2, SketchPhaseInit, PTL DEF Sketch!Spec

\* When a call of every task fits into the shortest period each is called in time.
THEOREM SketchTasksInTime ==
  ASSUME Sketch!SchedulerAssumption, Sketch!Schedulable
  PROVE  Sketch!Spec => []Sketch!CalledInTime
<1> QED  BY SketchLateInit, SketchLateStep, SketchLateInTime, PTL DEF Sketch!Spec

\* Every task of the sketches is called before it is due again, if a call of each
\* fits into the shortest period, and its lateness does not move its later calls.
THEOREM SketchIsOnTime ==
  ASSUME Sketch!Schedulable PROVE Spec => []SketchOnTime
<1>1. Sketch!SchedulerAssumption
  BY SketchesAssumption
<1>2. Sketch!Spec => []Sketch!CalledInTime
  BY <1>1, SketchTasksInTime
<1>3. Sketch!Spec => []Sketch!PhaseKept
  BY <1>1, SketchLatenessForgotten
<1>4. Sketch!CalledInTime /\ Sketch!PhaseKept => SketchOnTime
  BY DEF SketchOnTime
<1> QED  BY SketchSpec, <1>2, <1>3, <1>4, PTL

-----------------------------------------------------------------------------
(* The remote control (Remote).                                            *)

ControlProofs == INSTANCE RemoteProofs

\* The module that RemoteProofs is about is the one that Sketches has.
LEMMA SameControl == Control!Spec => ControlProofs!Spec
<1>1. Control!Init => ControlProofs!Init
  BY DEF Control!Init, ControlProofs!Init, Control!RadioInit, ControlProofs!RadioInit,
         Control!NoHandler, ControlProofs!NoHandler, Control!NoAddress,
         ControlProofs!NoAddress, Control!Default, ControlProofs!Default
<1>2. [Control!Next]_(Control!vars) => [ControlProofs!Next]_(ControlProofs!vars)
  BY DEF Control!FIFO_SIZE, ControlProofs!FIFO_SIZE, Control!Flags,
         ControlProofs!Flags, Control!Default, ControlProofs!Default,
         Control!NoAddress, ControlProofs!NoAddress, Control!radio_vars,
         ControlProofs!radio_vars, Control!Raise, ControlProofs!Raise,
         Control!Listening, ControlProofs!Listening, Control!Receive,
         ControlProofs!Receive, Control!StartTransmission,
         ControlProofs!StartTransmission, Control!Acknowledged,
         ControlProofs!Acknowledged, Control!RetriesExhausted,
         ControlProofs!RetriesExhausted, Control!set_rx_mode,
         ControlProofs!set_rx_mode, Control!set_tx_mode, ControlProofs!set_tx_mode,
         Control!reset_pipe0_address, ControlProofs!reset_pipe0_address,
         Control!FLUSH_TX, ControlProofs!FLUSH_TX, Control!W_TX_PAYLOAD,
         ControlProofs!W_TX_PAYLOAD, Control!R_RX_PAYLOAD, ControlProofs!R_RX_PAYLOAD,
         Control!CE, ControlProofs!CE, Control!configure_registers,
         ControlProofs!configure_registers, Control!Radio_Init,
         ControlProofs!Radio_Init, Control!Radio_Configure_Rx,
         ControlProofs!Radio_Configure_Rx, Control!Radio_Set_Tx_Addr,
         ControlProofs!Radio_Set_Tx_Addr, Control!app_vars, ControlProofs!app_vars,
         Control!NoHandler, ControlProofs!NoHandler, Control!InSpi,
         ControlProofs!InSpi, Control!InCall, ControlProofs!InCall, Control!Step,
         ControlProofs!Step, Control!Spi, ControlProofs!Spi, Control!KeepRadio,
         ControlProofs!KeepRadio, Control!KeepDriver, ControlProofs!KeepDriver,
         Control!Settle, ControlProofs!Settle, Control!Air, ControlProofs!Air,
         Control!INT4, ControlProofs!INT4, Control!On, ControlProofs!On, Control!Serve,
         ControlProofs!Serve, Control!ClearFlags, ControlProofs!ClearFlags,
         Control!INT4_vect, ControlProofs!INT4_vect, Control!setup,
         ControlProofs!setup, Control!check_button, ControlProofs!check_button,
         Control!AfterRetries, ControlProofs!AfterRetries, Control!Configure,
         ControlProofs!Configure, Control!handle_servo,
         ControlProofs!handle_servo, Control!ReceiveCE, ControlProofs!ReceiveCE,
         Control!CallReceive, ControlProofs!CallReceive, Control!ReceiveStatus,
         ControlProofs!ReceiveStatus, Control!ReceivePayload,
         ControlProofs!ReceivePayload, Control!ReceiveResult,
         ControlProofs!ReceiveResult, Control!FlagAfterReceive,
         ControlProofs!FlagAfterReceive, Control!Received, ControlProofs!Received,
         Control!recv_packet_task, ControlProofs!recv_packet_task, Control!LockSet,
         ControlProofs!LockSet, Control!Locks, ControlProofs!Locks,
         Control!CallTransmit, ControlProofs!CallTransmit, Control!Command,
         ControlProofs!Command, Control!Radio_Transmit, ControlProofs!Radio_Transmit,
         Control!Transmitted, ControlProofs!Transmitted, Control!send_packet_task,
         ControlProofs!send_packet_task, Control!Next, ControlProofs!Next,
         Control!vars, ControlProofs!vars
<1> QED  BY <1>1, <1>2, PTL DEF Control!Spec, ControlProofs!Spec

LEMMA ControlAssumption == ControlProofs!RadioAssumption
  BY SketchesAssumption
  DEF SketchesAssumption, Control!RadioAssumption, ControlProofs!RadioAssumption,
      Control!NoAddress, ControlProofs!NoAddress

\* The radio interrupt never comes between two commands of a call from the loop.
THEOREM RemoteCommandsWhole == Spec => []RemoteSpiUninterrupted
<1>1. ControlProofs!Spec => []ControlProofs!SpiUninterrupted
  BY ControlAssumption, ControlProofs!SpiIsUninterrupted
<1>2. ControlProofs!SpiUninterrupted => RemoteSpiUninterrupted
  BY DEF RemoteSpiUninterrupted, Control!SpiUninterrupted,
         ControlProofs!SpiUninterrupted, Control!NoHandler, ControlProofs!NoHandler,
         Control!InSpi, ControlProofs!InSpi
<1> QED  BY ControlSpec, SameControl, <1>1, <1>2, PTL

\* Between two tasks rxflag says whether the radio holds packets: none is forgotten.
THEOREM RemoteForgetsNoPacket == Spec => []RemoteRxflagTellsPackets
<1>1. ControlProofs!Spec => []ControlProofs!RxflagTellsPackets
  BY ControlAssumption, ControlProofs!NoPacketForgotten
<1>2. ControlProofs!RxflagTellsPackets => RemoteRxflagTellsPackets
  BY DEF RemoteRxflagTellsPackets, Control!RxflagTellsPackets,
         ControlProofs!RxflagTellsPackets, Control!NoHandler, ControlProofs!NoHandler
<1> QED  BY ControlSpec, SameControl, <1>1, <1>2, PTL

\* The spin of Radio_Transmit has an end: the interrupt that ends it is to come.
THEOREM RemoteSpinEnds == Spec => []RemoteWaitHasEnd
<1>1. ControlProofs!Spec => []ControlProofs!WaitHasEnd
  BY ControlAssumption, ControlProofs!SpinEnds
<1>2. ControlProofs!WaitHasEnd => RemoteWaitHasEnd
  BY DEF RemoteWaitHasEnd, Control!WaitHasEnd, ControlProofs!WaitHasEnd,
         Control!NoHandler, ControlProofs!NoHandler, Control!NoAddress,
         ControlProofs!NoAddress
<1> QED  BY ControlSpec, SameControl, <1>1, <1>2, PTL

\* The remote's radio holds no order but the one in force: none that was cancelled or
\* replaced is sent later.
THEOREM RemoteSendsNothingStale == Spec => []RemoteNoStaleOrder
<1>1. ControlProofs!Spec => []ControlProofs!NoStaleOrder
  BY ControlAssumption, ControlProofs!NothingStale
<1>2. ControlProofs!NoStaleOrder => RemoteNoStaleOrder
  BY DEF RemoteNoStaleOrder, Control!NoStaleOrder, ControlProofs!NoStaleOrder
<1> QED  BY ControlSpec, SameControl, <1>1, <1>2, PTL

=============================================================================
