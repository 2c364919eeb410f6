-------------------------- MODULE Voltmeter_proofs --------------------------
(***************************************************************************)
(* Proofs about the voltmeter.  What holds whatever the timing comes       *)
(* first: the loop reads once for each period that ended, and the driver   *)
(* reads the buffer from its first byte on.  That no report is refused,    *)
(* mixed or repeated is a matter of time: it needs that a period is long   *)
(* enough for a job, byte by byte, and for a conversion.                   *)
(***************************************************************************)
EXTENDS Voltmeter, TLAPS

(* A period lasts long enough for all the bytes of a job, one for each     *)
(* overflow, and for a pass and a conversion.  The program has MAX = 50    *)
(* and sends 20 bytes.                                                     *)
PeriodIsLong == Timely /\ MAX >= Length /\ MAX >= 2

----------------------------------------------------------------------------
(* The invariant, with any timing.                                         *)

(* The driver's interrupt for an empty DATA is enabled just while bytes    *)
(* are left, and not before the call has set up the job.                   *)
JobInv ==
  /\ Len(sent) + remaining <= Length
  /\ call = "none" => /\ "DRE" \in inten <=> remaining > 0
                      /\ remaining > 0 => ptr = Len(sent)
  /\ call # "none" => "DRE" \notin inten /\ remaining = Length /\ sent = <<>>
  /\ call \in {"mark", "enable"} => ptr = 0
  /\ call # "none" <=> pc = "writing"
  /\ \A i \in 1 .. Len(sent) : sent[i].at = i - 1

(* Between the test and the end of the pass flag is set.                   *)
LoopInv ==
  /\ pc \in {"read", "format", "write", "writing"} => flag
  /\ flag /\ pc \in {"start", "test"} => elapsed
  /\ pc = "format" => formatted < text
  /\ pc = "write" => formatted = text
  /\ pc \in {"format", "write"} =>
       \A i \in Offset : i < formatted => msg[i] = current

AnyTiming == TypeOK /\ JobInv /\ LoopInv

----------------------------------------------------------------------------
(* The invariant, for long periods.                                        *)

(* The bytes that are not on their way out yet, or still on it.            *)
Pending == remaining + (IF full THEN 1 ELSE 0) + (IF shifting THEN 1 ELSE 0)

(* Each overflow takes one of them; with the period's end none is left.    *)
Drains ==
  /\ Pending = 0 \/ Pending + count <= Length + (IF "byte" \in due THEN 1 ELSE 0)
  /\ flag => count = 0 /\ "pass" \in due
  /\ flag /\ pc \notin {"writing", "clear"} => Pending = 0

Fresh == converting \/ ready

(* The first overflow finds a pass begun since the result was read, the    *)
(* second a pass ended, the third its conversion.                          *)
Converts ==
  /\ (count > 0 \/ "pass" \notin due) /\ pc # "start" => Fresh
  /\ count > 0 /\ "pass" \notin due => Fresh
  /\ count > 1 => Fresh
  /\ count > 1 /\ "conversion" \notin due => ready
  /\ flag /\ pc \in {"start", "test", "read"} => ready

(* The text of a job stays in msg for as long as the driver reads it.      *)
Kept ==
  /\ remaining > 0 => \A i \in Offset : i < job.text => msg[i] = job.current
  /\ \A i \in 1 .. Len(sent) : i <= job.text => sent[i].byte = job.current

InTime == Drains /\ Converts /\ Kept /\ ~ refused /\ ~ stale

IInv == AnyTiming /\ InTime

----------------------------------------------------------------------------
(* With any timing.                                                        *)

LEMMA InitAny == Init => AnyTiming
<1> SUFFICES ASSUME Init PROVE AnyTiming
  OBVIOUS
<1> USE LengthAssumption, VoltmeterAssumption DEF Init, UsartInit
<1>1. TypeOK
  <2>1. msg \in [Offset -> 0 .. Generations - 1]
    OBVIOUS
  <2>2. job \in [current : 0 .. Generations - 1, text : 1 .. Length]
    OBVIOUS
  <2>3. Len(<<>>) = 0
    OBVIOUS
  <2>4. full \in BOOLEAN /\ shifting \in BOOLEAN /\ txc \in BOOLEAN
    BY Zenon
  <2>5. UsartTypeOK
    BY <2>3, <2>4 DEF UsartTypeOK
  <2>6. sent \in Seq(Read)
    OBVIOUS
  <2>7. /\ flag \in BOOLEAN /\ converting \in BOOLEAN /\ ready \in BOOLEAN
        /\ elapsed \in BOOLEAN /\ stale \in BOOLEAN /\ refused \in BOOLEAN
    BY Zenon
  <2>8. /\ pc \in {"start", "test", "read", "format", "write", "writing", "clear"}
        /\ count \in 0 .. MAX /\ text \in 1 .. Length /\ formatted \in 0 .. Length
        /\ due \subseteq {"pass", "conversion", "byte"} /\ current \in 0 .. Generations - 1
    OBVIOUS
  <2> QED
    BY <2>1, <2>2, <2>5, <2>6, <2>7, <2>8, Zenon DEF TypeOK
<1>2. JobInv
  BY DEF JobInv
<1>3. LoopInv
  BY DEF LoopInv
<1> QED
  BY <1>1, <1>2, <1>3 DEF AnyTiming

LEMMA SentBytes ==
  ASSUME TypeOK
  PROVE  /\ Len(sent) \in Nat /\ DOMAIN sent = 1 .. Len(sent)
         /\ \A i \in 1 .. Len(sent) : sent[i] \in Read
BY DEF TypeOK

LEMMA MainLoopAny ==
  ASSUME AnyTiming, MainLoop
  PROVE  AnyTiming'
<1> USE LengthAssumption, VoltmeterAssumption DEF AnyTiming
<1>1. CASE StartConversion
  <2> USE <1>1 DEF StartConversion, histories, usart, registers
  <2>1. TypeOK'
    BY DEF TypeOK, UsartTypeOK
  <2> QED
    BY <2>1 DEF JobInv, LoopInv
<1>2. CASE TestFlag
  <2> USE <1>2 DEF TestFlag, adc, usart, registers
  <2>1. elapsed' \in BOOLEAN
    BY Zenon
  <2>2. TypeOK'
    BY <2>1 DEF TypeOK, UsartTypeOK
  <2> QED
    BY <2>2 DEF JobInv, LoopInv
<1>3. CASE ReadAdc
  <2> USE <1>3 DEF ReadAdc, usart, registers
  <2>1. current' \in 0 .. Generations - 1
    BY DEF TypeOK
  <2>2. ready' \in BOOLEAN /\ stale' \in BOOLEAN
    BY Zenon
  <2>3. UsartTypeOK'
    BY DEF TypeOK, UsartTypeOK
  <2>4. TypeOK'
    BY <2>1, <2>2, <2>3 DEF TypeOK
  <2>5. LoopInv'
    BY DEF LoopInv, TypeOK, Offset
  <2> QED
    BY <2>4, <2>5 DEF JobInv
<1>4. CASE FormatByte
  <2> USE <1>4 DEF FormatByte, adc, histories, usart, registers
  <2>1. /\ formatted \in Offset /\ formatted + 1 \in 0 .. Length /\ formatted + 1 <= text
        /\ formatted \in Nat /\ text \in Nat
    BY DEF TypeOK, LoopInv, Offset
  <2>2. TypeOK'
    BY <2>1 DEF TypeOK, UsartTypeOK
  <2>3. \A i \in Offset : i < formatted + 1 => msg'[i] = current
    BY <2>1 DEF LoopInv, TypeOK, Offset
  <2>4. LoopInv'
    BY <2>1, <2>3 DEF LoopInv
  <2> QED
    BY <2>2, <2>4 DEF JobInv
<1>5. CASE WriteJob /\ Busy
  <2> USE <1>5 DEF WriteJob, adc, usart, registers
  <2>1. refused' \in BOOLEAN
    BY Zenon
  <2>2. UsartTypeOK'
    BY DEF TypeOK, UsartTypeOK
  <2>3. TypeOK'
    BY <2>1, <2>2 DEF TypeOK
  <2> QED
    BY <2>3 DEF JobInv, LoopInv
<1>6. CASE WriteJob /\ ~ Busy
  <2> USE <1>6 DEF WriteJob, Busy, Reserve, adc, registers
  <2>1. <<>> \in Seq(Read) /\ Len(<<>>) = 0
    OBVIOUS
  <2>2. [current |-> current, text |-> text] \in [current : 0 .. Generations - 1, text : 1 .. Length]
    BY DEF TypeOK
  <2>3. TypeOK'
    <3>1. /\ remaining' = Length /\ call' = "point" /\ sent' = <<>> /\ Len(sent') = 0
          /\ UNCHANGED <<ptr, status, inten, full, shifting, txc>>
          /\ sent' \in Seq(Read)
      BY <2>1
    <3>2. UsartTypeOK'
      BY <3>1 DEF TypeOK, UsartTypeOK
    <3> QED
      BY <2>2, <3>1, <3>2 DEF TypeOK
  <2>4. JobInv'
    BY <2>1 DEF JobInv, TypeOK, UsartTypeOK
  <2> QED
    BY <2>3, <2>4 DEF LoopInv
<1>7. CASE WriteStep
  <2> USE <1>7 DEF WriteStep, adc, histories
  <2>1. CASE Point
    <3> USE <2>1 DEF Point, registers
    <3>1. TypeOK'
      BY DEF TypeOK, UsartTypeOK
    <3> QED
      BY <3>1 DEF JobInv, LoopInv
  <2>2. CASE Mark
    <3> USE <2>2 DEF Mark, registers
    <3>1. TypeOK'
      BY DEF TypeOK, UsartTypeOK
    <3> QED
      BY <3>1 DEF JobInv, LoopInv
  <2>3. CASE Enable
    <3> USE <2>3 DEF Enable, registers
    <3>1. TypeOK'
      BY DEF TypeOK, UsartTypeOK
    <3> QED
      BY <3>1 DEF JobInv, LoopInv
  <2> QED
    BY <2>1, <2>2, <2>3 DEF CallStep
<1>8. CASE ClearFlag
  <2> USE <1>8 DEF ClearFlag, adc, histories, usart, registers
  <2>1. TypeOK'
    BY ZenonT(60) DEF TypeOK, UsartTypeOK
  <2> QED
    BY <2>1 DEF JobInv, LoopInv
<1> QED
  BY <1>1, <1>2, <1>3, <1>4, <1>5, <1>6, <1>7, <1>8 DEF MainLoop

(* What an interrupt does: it ends a job, or reads a byte, or both.        *)
LEMMA HandlerSteps ==
  ASSUME AnyTiming, InterruptHandler(msg)
  PROVE  /\ \/ /\ "DRE" \in inten /\ ~ full /\ remaining > 0 /\ call = "none"
               /\ sent' = Append(sent, [at |-> ptr, byte |-> msg[ptr]])
               /\ ptr' = ptr + 1 /\ remaining' = remaining - 1
               /\ full' = TRUE /\ txc' = FALSE
               /\ "DRE" \in inten' <=> remaining # 1
            \/ /\ UNCHANGED <<sent, ptr, remaining, full, txc>>
               /\ "DRE" \in inten' <=> "DRE" \in inten
         /\ inten' \subseteq {"DRE", "TXC"}
         /\ status' \in {"STATUS_OK", "STATUS_BUSY"}
         /\ UNCHANGED <<shifting, call>>
<1> USE DEF InterruptHandler
<1>1. /\ remaining \in Nat /\ inten \subseteq {"DRE", "TXC"}
      /\ status \in {"STATUS_OK", "STATUS_BUSY"}
  BY LengthAssumption DEF AnyTiming, TypeOK, UsartTypeOK
<1>2. "DRE" \in inten <=> call = "none" /\ remaining > 0
  BY DEF AnyTiming, JobInv
<1>3. "DRE" \in Raised <=> "DRE" \in inten /\ ~ full
  BY DEF Raised
<1>4. status' \in {"STATUS_OK", "STATUS_BUSY"}
  BY <1>1
<1>5. CASE "DRE" \in Raised
  <2>1. remaining > 0 /\ call = "none" /\ ~ full
    BY <1>2, <1>3, <1>5
  <2>2. AfterDRE = IF remaining > 1 THEN inten ELSE (inten \ {"DRE"}) \union {"TXC"}
    BY <1>1, <1>5, <2>1 DEF AfterDRE
  <2>3. inten' \subseteq {"DRE", "TXC"} /\ ("DRE" \in inten' <=> remaining # 1)
    BY <1>1, <1>2, <2>1, <2>2 DEF AfterTXC
  <2> QED
    BY <1>2, <1>3, <1>4, <1>5, <2>1, <2>3
<1>6. CASE "DRE" \notin Raised
  <2>1. AfterDRE = inten
    BY <1>1, <1>6 DEF AfterDRE
  <2>2. inten' \subseteq {"DRE", "TXC"} /\ ("DRE" \in inten' <=> "DRE" \in inten)
    BY <1>1, <2>1 DEF AfterTXC
  <2> QED
    BY <1>4, <1>6, <2>2
<1> QED
  BY <1>5, <1>6

LEMMA OverflowAny ==
  ASSUME AnyTiming, Overflow
  PROVE  AnyTiming'
<1> USE VoltmeterAssumption DEF AnyTiming, Overflow, adc, usart, registers
<1>1. count' \in 0 .. MAX
  BY DEF TypeOK
<1>2. due' \subseteq {"pass", "conversion", "byte"}
  OBVIOUS
<1>3. flag' \in BOOLEAN /\ elapsed' \in BOOLEAN
  BY DEF TypeOK
<1>4. TypeOK'
  BY <1>1, <1>2, <1>3 DEF TypeOK, UsartTypeOK
<1> QED
  BY <1>4 DEF JobInv, LoopInv

LEMMA UsartInterruptAny ==
  ASSUME AnyTiming, UsartInterrupt
  PROVE  AnyTiming'
<1> USE LengthAssumption, VoltmeterAssumption
    DEF AnyTiming, UsartInterrupt, main, adc, histories
<1>1. LoopInv'
  BY DEF LoopInv
<1>2. CASE UNCHANGED <<sent, ptr, remaining, full, txc>> /\ ("DRE" \in inten' <=> "DRE" \in inten)
  <2>1. UsartTypeOK'
    BY <1>2, HandlerSteps DEF TypeOK, UsartTypeOK
  <2>2. TypeOK'
    BY <1>2, <2>1 DEF TypeOK
  <2>3. JobInv'
    BY <1>2, HandlerSteps DEF JobInv
  <2> QED
    BY <1>1, <2>2, <2>3
<1>3. CASE ~ (UNCHANGED <<sent, ptr, remaining, full, txc>> /\ ("DRE" \in inten' <=> "DRE" \in inten))
  <2> DEFINE entry == [at |-> ptr, byte |-> msg[ptr]]
  <2>1. /\ "DRE" \in inten /\ ~ full /\ remaining > 0 /\ call = "none"
        /\ sent' = Append(sent, entry)
        /\ ptr' = ptr + 1 /\ remaining' = remaining - 1
        /\ full' = TRUE /\ txc' = FALSE
        /\ "DRE" \in inten' <=> remaining # 1
        /\ inten' \subseteq {"DRE", "TXC"} /\ status' \in {"STATUS_OK", "STATUS_BUSY"}
        /\ UNCHANGED <<shifting, call>>
    BY <1>3, HandlerSteps
  <2>2. remaining \in Nat /\ remaining <= Length /\ Len(sent) + remaining <= Length
        /\ ptr = Len(sent) /\ Len(sent) \in Nat
    BY <2>1, SentBytes DEF TypeOK, UsartTypeOK, JobInv
  <2>3. ptr \in Offset
    BY <2>1, <2>2 DEF Offset
  <2>4. entry \in Read
    BY <2>3 DEF TypeOK, Read
  <2>5. /\ sent' \in Seq(Read)
        /\ Len(sent') = Len(sent) + 1 /\ sent'[Len(sent) + 1] = entry
        /\ \A i \in 1 .. Len(sent) : sent'[i] = sent[i]
    <3> HIDE DEF entry
    <3> QED
      BY <2>1, <2>4 DEF TypeOK
  <2>6. UsartTypeOK'
    <3>1. full' \in BOOLEAN /\ txc' \in BOOLEAN /\ shifting' \in BOOLEAN
      BY <2>1, Zenon DEF TypeOK, UsartTypeOK
    <3>2. remaining' \in 0 .. Length /\ ptr' \in 0 .. Length /\ Len(sent') <= Length
      BY <2>1, <2>2, <2>5
    <3> QED
      BY <2>1, <3>1, <3>2 DEF TypeOK, UsartTypeOK
  <2>7. TypeOK'
    BY <2>5, <2>6 DEF TypeOK
  <2>8. \A i \in 1 .. Len(sent') : sent'[i].at = i - 1
    <3> TAKE i \in 1 .. Len(sent')
    <3>1. CASE i = Len(sent) + 1
      BY <2>2, <2>5, <3>1
    <3>2. CASE i # Len(sent) + 1
      BY <2>2, <2>5, <3>2 DEF JobInv
    <3> QED
      BY <3>1, <3>2
  <2>9. JobInv'
    BY <2>1, <2>2, <2>5, <2>8 DEF JobInv
  <2> QED
    BY <1>1, <2>7, <2>9
<1> QED
  BY <1>2, <1>3

LEMMA EndConversionAny ==
  ASSUME AnyTiming, EndConversion
  PROVE  AnyTiming'
<1> USE DEF AnyTiming, EndConversion, histories, usart, registers
<1>1. converting' \in BOOLEAN /\ ready' \in BOOLEAN
  BY Zenon
<1>2. UsartTypeOK'
  BY DEF TypeOK, UsartTypeOK
<1>3. TypeOK'
  BY <1>1, <1>2 DEF TypeOK
<1> QED
  BY <1>3 DEF JobInv, LoopInv

LEMMA LoadByteAny ==
  ASSUME AnyTiming, LoadByte
  PROVE  AnyTiming'
<1> USE DEF AnyTiming, LoadByte, Load, main, adc, histories
<1>1. UsartTypeOK'
  BY DEF TypeOK, UsartTypeOK
<1>2. TypeOK'
  BY <1>1 DEF TypeOK
<1> QED
  BY <1>2 DEF JobInv, LoopInv

LEMMA SendByteAny ==
  ASSUME AnyTiming, SendByte
  PROVE  AnyTiming'
<1> USE DEF AnyTiming, SendByte, ShiftOut, adc, histories
<1>1. txc' \in BOOLEAN
  BY Zenon
<1>2. UsartTypeOK'
  BY <1>1 DEF TypeOK, UsartTypeOK
<1>3. TypeOK'
  BY <1>2 DEF TypeOK
<1> QED
  BY <1>3 DEF JobInv, LoopInv

LEMMA NextAny == AnyTiming /\ [Next]_vars => AnyTiming'
<1> SUFFICES ASSUME AnyTiming, [Next]_vars PROVE AnyTiming'
  OBVIOUS
<1>1. CASE UNCHANGED vars
  BY <1>1 DEF vars, main, adc, histories, usart, registers, AnyTiming, TypeOK, UsartTypeOK,
              JobInv, LoopInv
<1> QED
  BY <1>1, MainLoopAny, OverflowAny, UsartInterruptAny, EndConversionAny, LoadByteAny,
     SendByteAny DEF Next

----------------------------------------------------------------------------
(* With long periods.                                                      *)

LEMMA InitInTime == Init => InTime
<1> SUFFICES ASSUME Init PROVE InTime
  OBVIOUS
<1>1. /\ remaining = 0 /\ ~ full /\ ~ shifting /\ sent = <<>> /\ ~ flag /\ pc = "start"
      /\ count = 0 /\ ~ refused /\ ~ stale
  BY DEF Init, UsartInit
<1>2. Drains
  BY <1>1 DEF Drains, Pending
<1>3. Converts
  BY <1>1 DEF Converts
<1>4. Kept
  BY <1>1 DEF Kept
<1> QED
  BY <1>1, <1>2, <1>3, <1>4 DEF InTime

LEMMA Amounts ==
  ASSUME AnyTiming
  PROVE  /\ Length \in Nat /\ MAX \in Nat /\ count \in Nat /\ count <= MAX
         /\ remaining \in Nat /\ remaining <= Length /\ Pending \in Nat
         /\ Pending = 0 <=> ~ Transmitting
         /\ Pending = 0 => remaining = 0
<1>1. /\ Length \in Nat /\ MAX \in Nat /\ count \in Nat /\ count <= MAX
      /\ remaining \in Nat /\ remaining <= Length
  BY LengthAssumption, VoltmeterAssumption DEF AnyTiming, TypeOK, UsartTypeOK
<1>2. /\ Pending \in Nat /\ (Pending = 0 <=> ~ Transmitting) /\ (Pending = 0 => remaining = 0)
  BY <1>1 DEF Pending, Transmitting
<1> QED
  BY <1>1, <1>2

(* The steps of the loop that leave job and converter alone.               *)
LEMMA QuietSteps ==
  ASSUME IInv, TestFlag \/ WriteStep \/ ClearFlag
  PROVE  InTime'
<1> USE DEF IInv, InTime
<1>1. /\ UNCHANGED <<remaining, full, shifting, sent, msg, job, count, converting, ready>>
      /\ UNCHANGED <<refused, stale>>
  BY DEF TestFlag, WriteStep, CallStep, Point, Mark, Enable, ClearFlag, adc, usart, registers,
         histories
<1>2. Kept' /\ ~ refused' /\ ~ stale' /\ Pending' = Pending /\ Fresh' = Fresh
  BY <1>1 DEF Kept, Pending, Fresh
<1>3. CASE TestFlag
  <2>1. UNCHANGED <<flag, due>> /\ pc = "test" /\ pc' = IF flag THEN "read" ELSE "clear"
    BY <1>3 DEF TestFlag
  <2>2. Drains'
    BY <1>1, <1>2, <2>1 DEF Drains
  <2>3. Converts'
    BY <1>1, <1>2, <2>1 DEF Converts
  <2> QED
    BY <1>2, <2>2, <2>3
<1>4. CASE WriteStep
  <2>1. UNCHANGED <<flag, due>> /\ pc = "writing" /\ pc' \in {"writing", "clear"}
    BY <1>4 DEF WriteStep
  <2>2. Drains'
    BY <1>1, <1>2, <2>1 DEF Drains
  <2>3. Converts'
    BY <1>1, <1>2, <2>1 DEF Converts
  <2> QED
    BY <1>2, <2>2, <2>3
<1>5. CASE ClearFlag
  <2>1. ~ flag' /\ due' = due \ {"pass"} /\ pc = "clear" /\ pc' = "start"
    BY <1>5 DEF ClearFlag
  <2>2. Drains'
    BY <1>1, <1>2, <2>1 DEF Drains
  <2>3. Converts'
    BY <1>1, <1>2, <2>1 DEF Converts
  <2> QED
    BY <1>2, <2>2, <2>3
<1> QED
  BY <1>3, <1>4, <1>5

(* The steps that use converter and buffer.                                *)
LEMMA StartInTime ==
  ASSUME IInv, StartConversion
  PROVE  InTime'
<1> USE DEF IInv, InTime
<1>1. /\ UNCHANGED <<remaining, full, shifting, sent, msg, job, count, ready, flag, due>>
      /\ UNCHANGED <<refused, stale>> /\ converting' /\ pc = "start" /\ pc' = "test"
  BY DEF StartConversion, usart, registers, histories
<1>2. Kept' /\ ~ refused' /\ ~ stale' /\ Pending' = Pending /\ Fresh'
  BY <1>1 DEF Kept, Pending, Fresh
<1>3. Drains'
  BY <1>1, <1>2 DEF Drains
<1>4. Converts'
  BY <1>1, <1>2 DEF Converts
<1> QED
  BY <1>2, <1>3, <1>4

LEMMA ReadInTime ==
  ASSUME IInv, ReadAdc
  PROVE  InTime'
<1> USE DEF IInv, InTime
<1>1. /\ UNCHANGED <<remaining, full, shifting, sent, msg, job, count, converting, flag, due>>
      /\ refused' = refused /\ pc = "read" /\ pc' = "format"
      /\ stale' = (stale \/ ~ ready)
  BY DEF ReadAdc, usart, registers
<1>2. flag /\ count = 0 /\ "pass" \in due /\ ready
  BY <1>1 DEF AnyTiming, LoopInv, Drains, Converts
<1>3. ~ stale'
  BY <1>1, <1>2, Zenon
<1>4. Kept' /\ ~ refused' /\ Pending' = Pending
  BY <1>1 DEF Kept, Pending
<1>5. Drains'
  BY <1>1, <1>4 DEF Drains
<1>6. Converts'
  BY <1>1, <1>2 DEF Converts
<1> QED
  BY <1>3, <1>4, <1>5, <1>6

(* msg is written only while the driver has nothing of it left to read.    *)
LEMMA FormatInTime ==
  ASSUME IInv, FormatByte
  PROVE  InTime'
<1> USE DEF IInv, InTime
<1>1. /\ UNCHANGED <<remaining, full, shifting, sent, job, count, converting, ready, flag, due>>
      /\ UNCHANGED <<refused, stale>> /\ pc = "format" /\ pc' \in {"format", "write"}
  BY DEF FormatByte, adc, histories, usart, registers
<1>2. flag /\ count = 0 /\ "pass" \in due /\ Pending = 0 /\ remaining = 0
  BY <1>1, Amounts DEF AnyTiming, LoopInv, Drains
<1>3. Kept' /\ ~ refused' /\ ~ stale' /\ Pending' = Pending
  BY <1>1, <1>2 DEF Kept, Pending
<1>4. Drains'
  BY <1>1, <1>3 DEF Drains
<1>5. Converts'
  BY <1>1, <1>2 DEF Converts
<1> QED
  BY <1>3, <1>4, <1>5

LEMMA WriteInTime ==
  ASSUME IInv, WriteJob
  PROVE  InTime'
<1> USE DEF IInv, InTime
<1>1. /\ UNCHANGED <<msg, count, converting, ready, flag, due, stale>> /\ pc = "write"
  BY DEF WriteJob, adc
<1>2. flag /\ count = 0 /\ "pass" \in due /\ Pending = 0 /\ remaining = 0
  BY <1>1, Amounts DEF AnyTiming, LoopInv, Drains
<1>3. ~ Busy
  BY <1>2 DEF Busy
<1>4. /\ remaining' = Length /\ sent' = <<>> /\ UNCHANGED <<full, shifting, refused>>
      /\ job' = [current |-> current, text |-> text] /\ pc' = "writing"
  BY <1>3 DEF WriteJob, Reserve, registers
<1>5. ~ full /\ ~ shifting /\ Pending' = Length
  BY <1>2, <1>4, Amounts DEF Pending
<1>6. Kept'
  <2>1. formatted = text
    BY <1>1 DEF AnyTiming, LoopInv
  <2>2. \A i \in Offset : i < text => msg[i] = current
    BY <1>1, <2>1 DEF AnyTiming, LoopInv
  <2>3. 1 .. Len(sent') = {}
    BY <1>4
  <2> QED
    BY <1>1, <1>4, <2>2, <2>3 DEF Kept
<1>7. Drains'
  BY <1>1, <1>2, <1>4, <1>5, Amounts DEF Drains
<1>8. Converts'
  BY <1>1, <1>2, <1>4 DEF Converts
<1> QED
  BY <1>1, <1>4, <1>6, <1>7, <1>8

(* An overflow finds the last one's work done.                             *)
LEMMA OverflowInTime ==
  ASSUME IInv, PeriodIsLong, Overflow
  PROVE  InTime'
<1> USE DEF IInv, InTime
<1>1. /\ UNCHANGED <<remaining, full, shifting, sent, msg, job, converting, ready, pc>>
      /\ UNCHANGED <<refused, stale>>
      /\ due = {} /\ "pass" \in due'
      /\ "conversion" \in due' <=> converting
      /\ "byte" \in due' <=> Transmitting
  BY DEF Overflow, PeriodIsLong, adc, usart, registers
<1>2. Kept' /\ ~ refused' /\ ~ stale' /\ Pending' = Pending /\ Fresh' = Fresh
  BY <1>1 DEF Kept, Pending, Fresh
<1>3. ~ flag /\ (Pending = 0 \/ Pending + count <= Length)
  BY <1>1, Amounts DEF Drains
<1>4. CASE count = MAX
  <2>1. flag' /\ count' = 0
    BY <1>4 DEF Overflow
  <2>2. Pending = 0
    BY <1>3, <1>4, Amounts DEF PeriodIsLong
  <2>3. ready
    BY <1>1, <1>4, VoltmeterAssumption DEF Converts, PeriodIsLong
  <2>4. Drains'
    BY <1>1, <1>2, <2>1, <2>2 DEF Drains
  <2>5. Converts'
    BY <1>1, <2>1, <2>3 DEF Converts, Fresh
  <2> QED
    BY <1>2, <2>4, <2>5
<1>5. CASE count # MAX
  <2>1. flag' = flag /\ count' = count + 1
    BY <1>5 DEF Overflow
  <2>2. Drains'
    <3>1. CASE Pending = 0
      BY <1>2, <1>3, <2>1, <3>1 DEF Drains
    <3>2. CASE Pending # 0
      <4>1. "byte" \in due'
        BY <1>1, <3>2, Amounts
      <4>2. Pending' + count' <= Length + 1
        BY <1>2, <1>3, <2>1, <3>2, Amounts
      <4> QED
        BY <1>3, <2>1, <4>1, <4>2 DEF Drains
    <3> QED
      BY <3>1, <3>2
  <2>3. count > 0 => Fresh
    BY <1>1 DEF Converts
  <2>4. pc # "start" => Fresh
    BY <1>1 DEF Converts
  <2>5. Converts'
    BY <1>1, <1>2, <1>3, <2>1, <2>3, <2>4, Amounts DEF Converts, Fresh
  <2> QED
    BY <1>2, <2>2, <2>5
<1> QED
  BY <1>4, <1>5

(* The driver reads a byte of the text the job was requested for.          *)
LEMMA InterruptInTime ==
  ASSUME IInv, UsartInterrupt
  PROVE  InTime'
<1> USE DEF IInv, InTime
<1>1. /\ UNCHANGED <<pc, flag, count, msg, converting, ready, due, job, refused, stale>>
      /\ InterruptHandler(msg)
  BY DEF UsartInterrupt, main, adc, histories
<1>2. Converts' /\ ~ refused' /\ ~ stale'
  BY <1>1 DEF Converts, Fresh
<1>3. CASE UNCHANGED <<sent, ptr, remaining, full, txc>>
  <2>1. shifting' = shifting
    BY <1>1, HandlerSteps
  <2>2. Kept' /\ Drains'
    BY <1>1, <1>3, <2>1 DEF Kept, Drains, Pending
  <2> QED
    BY <1>2, <2>2
<1>4. CASE ~ UNCHANGED <<sent, ptr, remaining, full, txc>>
  <2> DEFINE entry == [at |-> ptr, byte |-> msg[ptr]]
  <2>1. /\ "DRE" \in inten /\ ~ full /\ remaining > 0 /\ call = "none"
        /\ sent' = Append(sent, entry)
        /\ remaining' = remaining - 1 /\ full' = TRUE /\ shifting' = shifting
    BY <1>1, <1>4, HandlerSteps
  <2>2. Pending' = Pending
    BY <2>1, Amounts DEF Pending
  <2>3. Drains'
    BY <1>1, <2>2 DEF Drains
  <2>4. /\ ptr = Len(sent) /\ ptr \in Offset /\ Len(sent) \in Nat
    BY <2>1, Amounts, SentBytes DEF AnyTiming, JobInv, Offset
  <2>5. /\ Len(sent') = Len(sent) + 1 /\ sent'[Len(sent) + 1] = entry
        /\ \A i \in 1 .. Len(sent) : sent'[i] = sent[i]
    <3>1. entry \in Read
      BY <2>4 DEF Read, AnyTiming, TypeOK
    <3> HIDE DEF entry
    <3> QED
      BY <2>1, <3>1 DEF AnyTiming, TypeOK
  <2>6. \A i \in 1 .. Len(sent') : i <= job.text => sent'[i].byte = job.current
    <3> SUFFICES ASSUME NEW i \in 1 .. Len(sent'), i <= job.text
                 PROVE  sent'[i].byte = job.current
      OBVIOUS
    <3>1. CASE i = Len(sent) + 1
      <4>1. job.text \in Nat
        BY LengthAssumption DEF AnyTiming, TypeOK
      <4>2. ptr < job.text
        BY <2>4, <3>1, <4>1
      <4>3. msg[ptr] = job.current
        BY <2>1, <2>4, <4>2 DEF Kept
      <4> QED
        BY <2>5, <3>1, <4>3
    <3>2. CASE i # Len(sent) + 1
      <4>1. i \in 1 .. Len(sent)
        BY <2>4, <2>5, <3>2
      <4> QED
        BY <2>5, <4>1 DEF Kept
    <3> QED
      BY <3>1, <3>2
  <2>7. Kept'
    BY <1>1, <2>1, <2>6 DEF Kept
  <2> QED
    BY <1>2, <2>3, <2>7
<1> QED
  BY <1>3, <1>4

LEMMA PeripheralsInTime ==
  ASSUME IInv, EndConversion \/ LoadByte \/ SendByte
  PROVE  InTime'
<1> USE DEF IInv, InTime
<1>1. /\ UNCHANGED <<pc, flag, count, msg, job, remaining, sent, refused, stale>>
  BY DEF EndConversion, LoadByte, SendByte, Load, ShiftOut, main, adc, histories, usart, registers
<1>2. Kept' /\ ~ refused' /\ ~ stale'
  BY <1>1 DEF Kept
<1>3. CASE EndConversion
  <2>1. ready' /\ due' = due \ {"conversion"} /\ UNCHANGED <<full, shifting>>
    BY <1>3 DEF EndConversion, usart, registers
  <2>2. Drains'
    BY <1>1, <2>1 DEF Drains, Pending
  <2>3. Converts'
    BY <1>1, <2>1 DEF Converts, Fresh
  <2> QED
    BY <1>2, <2>2, <2>3
<1>4. CASE LoadByte
  <2>1. full /\ ~ shifting /\ ~ full' /\ shifting' /\ UNCHANGED <<due, converting, ready>>
    BY <1>4 DEF LoadByte, Load, main, adc
  <2>2. Drains'
    BY <1>1, <2>1, Amounts DEF Drains, Pending
  <2>3. Converts'
    BY <1>1, <2>1 DEF Converts, Fresh
  <2> QED
    BY <1>2, <2>2, <2>3
<1>5. CASE SendByte
  <2>1. shifting /\ ~ shifting' /\ due' = due \ {"byte"} /\ UNCHANGED <<full, converting, ready>>
    BY <1>5 DEF SendByte, ShiftOut, adc
  <2>2. Pending' = Pending - 1 /\ Pending # 0 /\ ("byte" \notin due')
    BY <1>1, <2>1, Amounts DEF Pending
  <2>3. "pass" \in due' <=> "pass" \in due
    BY <2>1
  <2>4. Drains'
    BY <1>1, <2>2, <2>3, Amounts DEF Drains
  <2>5. Converts'
    BY <1>1, <2>1 DEF Converts, Fresh
  <2> QED
    BY <1>2, <2>4, <2>5
<1> QED
  BY <1>3, <1>4, <1>5

LEMMA NextInTime == PeriodIsLong /\ IInv /\ [Next]_vars => IInv'
<1> SUFFICES ASSUME PeriodIsLong, IInv, [Next]_vars PROVE IInv'
  OBVIOUS
<1>1. AnyTiming'
  BY NextAny DEF IInv
<1>2. CASE UNCHANGED vars
  <2>1. InTime'
    BY <1>2 DEF vars, main, adc, histories, usart, registers, IInv, InTime, Drains, Converts,
                Kept, Pending, Fresh
  <2> QED
    BY <1>1, <2>1 DEF IInv
<1>3. CASE Next
  <2>1. InTime'
    BY <1>3, QuietSteps, StartInTime, ReadInTime, FormatInTime, WriteInTime, OverflowInTime,
       InterruptInTime, PeripheralsInTime DEF Next, MainLoop
  <2> QED
    BY <1>1, <2>1 DEF IInv
<1> QED
  BY <1>2, <1>3

----------------------------------------------------------------------------
(* The theorems.                                                           *)

(* Types, the driver's bookkeeping and the loop's flag, with any timing.   *)
THEOREM AnyTimingHolds == Spec => []AnyTiming
  BY InitAny, NextAny, PTL DEF Spec

(* A report is made only for a period that ended since the last one.       *)
THEOREM ReportPerPeriod == Spec => OnePerPeriod
<1>1. AnyTiming /\ [Next]_vars => [(pc = "test" /\ pc' = "read") => elapsed]_vars
  <2> SUFFICES ASSUME AnyTiming, Next, pc = "test", pc' = "read"
               PROVE  elapsed
    OBVIOUS
  <2>1. TestFlag
    BY DEF Next, MainLoop, StartConversion, ReadAdc, FormatByte, WriteJob, WriteStep, ClearFlag,
           Overflow, UsartInterrupt, EndConversion, LoadByte, SendByte, main
  <2>2. flag
    BY <2>1 DEF TestFlag
  <2> QED
    BY <2>2 DEF AnyTiming, LoopInv
<1> QED
  BY <1>1, AnyTimingHolds, PTL DEF Spec, OnePerPeriod

(* With periods long enough the invariant that counts the bytes holds.     *)
THEOREM InTimeHolds == ASSUME PeriodIsLong PROVE Spec => []IInv
<1>1. Init => IInv
  BY InitAny, InitInTime DEF IInv
<1>2. IInv /\ [Next]_vars => IInv'
  BY NextInTime
<1> QED
  BY <1>1, <1>2, PTL DEF Spec

(* Then what goes out for a report is the whole text of one measurement,   *)
THEOREM ReportsWhole == ASSUME PeriodIsLong PROVE Spec => []WholeReport
<1>1. IInv => WholeReport
  BY DEF IInv, AnyTiming, InTime, JobInv, Kept, WholeReport
<1> QED
  BY <1>1, InTimeHolds, PTL

(* no report is lost to a busy driver,                                     *)
THEOREM ReportsAccepted == ASSUME PeriodIsLong PROVE Spec => []NeverRefused
<1>1. IInv => NeverRefused
  BY DEF IInv, InTime, NeverRefused
<1> QED
  BY <1>1, InTimeHolds, PTL

(* and none repeats an old measurement.                                    *)
THEOREM ReportsFresh == ASSUME PeriodIsLong PROVE Spec => []NeverStale
<1>1. IInv => NeverStale
  BY DEF IInv, InTime, NeverStale
<1> QED
  BY <1>1, InTimeHolds, PTL
=============================================================================
