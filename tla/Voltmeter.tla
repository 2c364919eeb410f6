----------------------------- MODULE Voltmeter ------------------------------
(***************************************************************************)
(* The program of main.c: a timer interrupt raises a flag every MAX + 1    *)
(* overflows, and the main loop then reads the converter, formats the      *)
(* voltage into msg and hands msg to the USART driver, which sends it from *)
(* its own interrupt.  The flag and msg are shared with no lock: the loop  *)
(* clears the flag at the end of every pass, and formats into msg whether  *)
(* or not the driver still reads it.                                       *)
(*                                                                         *)
(* A measurement is its number modulo Generations.  Time is abstracted to  *)
(* what happens between two overflows: with Timely the interrupts that were *)
(* raised have been served, the loop has ended a pass, a conversion that   *)
(* ran has ended, and a transmitter that had something to send has sent a  *)
(* byte.  On the board an overflow takes at least two milliseconds, a byte *)
(* at 9600 baud takes one, and the others take microseconds.               *)
(***************************************************************************)
EXTENDS UsartJob

CONSTANTS
  MAX,          (* Overflows of a period, less one.                        *)
  Generations,  (* Measurements that are told apart.                       *)
  Timely        (* Whether the assumption above on an overflow holds.      *)

ASSUME VoltmeterAssumption ==
  /\ MAX \in Nat \ {0}
  /\ Generations \in Nat \ {0, 1}
  /\ Timely \in BOOLEAN

VARIABLES
  pc,          (* The next step of the main loop.                          *)
  flag,        (* flag.                                                    *)
  count,       (* count.                                                   *)
  msg,         (* msg: the measurement each byte was formatted for.        *)
  text,        (* The bytes sprintf writes for this measurement, with NUL. *)
  formatted,   (* The bytes of them written so far.                        *)
  converting,  (* Whether a conversion runs.                               *)
  ready,       (* RESRDY.                                                  *)
  due,         (* What must happen before the next overflow, with Timely.  *)
  current,     (* History: the number of the measurement in msg.           *)
  job,         (* History: measurement and text of the job in the driver.  *)
  elapsed,     (* History: a period ended since the last report.           *)
  stale,       (* History: adc_read left result as it was.                 *)
  refused      (* History: the driver refused a job.                       *)

adc == <<converting, ready>>
histories == <<current, job, elapsed, stale, refused>>
main == <<pc, flag, count, msg, text, formatted, adc, due, histories>>
vars == <<main, usart>>

Offset == 0 .. Length - 1

Read == [at : Offset, byte : 0 .. Generations - 1]

TypeOK ==
  /\ UsartTypeOK
  /\ sent \in Seq(Read)
  /\ pc \in {"start", "test", "read", "format", "write", "writing", "clear"}
  /\ flag \in BOOLEAN
  /\ count \in 0 .. MAX
  /\ msg \in [Offset -> 0 .. Generations - 1]
  /\ text \in 1 .. Length
  /\ formatted \in 0 .. Length
  /\ converting \in BOOLEAN /\ ready \in BOOLEAN
  /\ due \subseteq {"pass", "conversion", "byte"}
  /\ current \in 0 .. Generations - 1
  /\ job \in [current : 0 .. Generations - 1, text : 1 .. Length]
  /\ elapsed \in BOOLEAN /\ stale \in BOOLEAN /\ refused \in BOOLEAN

Init ==
  /\ UsartInit
  /\ pc = "start"
  /\ flag = FALSE
  /\ count = 0
  /\ msg = [i \in Offset |-> 0]
  /\ text = 1
  /\ formatted = 0
  /\ converting = FALSE /\ ready = FALSE
  /\ due = {}
  /\ current = 0
  /\ job = [current |-> 0, text |-> 1]
  /\ elapsed = FALSE /\ stale = FALSE /\ refused = FALSE

----------------------------------------------------------------------------
(* The main loop.                                                          *)

(* Mutation: no conversion is started.                                     *)
StartNothing ==
  /\ pc = "start"
  /\ pc' = "test"
  /\ UNCHANGED <<flag, count, msg, text, formatted, adc, due, histories, usart>>

StartConversion ==
  /\ pc = "start"
  /\ converting' = TRUE
  /\ pc' = "test"
  /\ UNCHANGED <<flag, count, msg, text, formatted, ready, due, histories, usart>>

TestFlag ==
  /\ pc = "test"
  /\ pc' = IF flag THEN "read" ELSE "clear"
  /\ elapsed' = (elapsed /\ ~flag)
  /\ UNCHANGED <<flag, count, msg, text, formatted, adc, due, current, job, stale, refused, usart>>

(* adc_read, whose result is not looked at: without RESRDY it leaves the   *)
(* last measurement in place, and main formats it again.                   *)
ReadAdc ==
  /\ pc = "read"
  /\ ready' = FALSE
  /\ stale' = (stale \/ ~ready)
  /\ current' = (current + 1) % Generations
  /\ text' \in 1 .. Length
  /\ formatted' = 0
  /\ pc' = "format"
  /\ UNCHANGED <<flag, count, msg, converting, due, job, elapsed, refused, usart>>

(* sprintf, a byte at a time: interrupts fall between two of them.         *)
FormatByte ==
  /\ pc = "format"
  /\ msg' = [msg EXCEPT ![formatted] = current]
  /\ formatted' = formatted + 1
  /\ pc' = IF formatted + 1 = text THEN "write" ELSE "format"
  /\ UNCHANGED <<flag, count, text, adc, due, histories, usart>>

(* if(usart_flag=1) is an assignment: the job is always requested, and its *)
(* result is not looked at.                                                *)
WriteJob ==
  /\ pc = "write"
  /\ IF Busy
     THEN /\ refused' = TRUE
          /\ pc' = "clear"
          /\ UNCHANGED <<job, usart>>
     ELSE /\ Reserve
          /\ job' = [current |-> current, text |-> text]
          /\ pc' = "writing"
          /\ UNCHANGED refused
  /\ UNCHANGED <<flag, count, msg, text, formatted, adc, due, current, elapsed, stale>>

WriteStep ==
  /\ pc = "writing"
  /\ CallStep
  /\ pc' = IF call' = "none" THEN "clear" ELSE "writing"
  /\ UNCHANGED <<flag, count, msg, text, formatted, adc, due, histories>>

(* Mutation: the flag is not cleared.                                      *)
ClearNothing ==
  /\ pc = "clear"
  /\ due' = due \ {"pass"}
  /\ pc' = "start"
  /\ UNCHANGED <<flag, count, msg, text, formatted, adc, histories, usart>>

(* flag=0 at the end of every pass, whatever the test saw.                 *)
ClearFlag ==
  /\ pc = "clear"
  /\ flag' = FALSE
  /\ due' = due \ {"pass"}
  /\ pc' = "start"
  /\ UNCHANGED <<count, msg, text, formatted, adc, histories, usart>>

MainLoop ==
  StartConversion \/ TestFlag \/ ReadAdc \/ FormatByte \/ WriteJob \/ WriteStep \/ ClearFlag

----------------------------------------------------------------------------
(* Interrupts and peripherals.                                             *)

(* Mutation: every overflow raises the flag.                               *)
OverflowUncounted ==
  /\ Timely => due = {} /\ Raised = {}
  /\ flag' = TRUE
  /\ elapsed' = TRUE
  /\ due' = {"pass"} \union (IF converting THEN {"conversion"} ELSE {})
                     \union (IF Transmitting THEN {"byte"} ELSE {})
  /\ UNCHANGED <<pc, count, msg, text, formatted, adc, current, job, stale, refused, usart>>

(* Mutation: the period ends with no flag raised.                          *)
OverflowUnflagged ==
  /\ Timely => due = {} /\ Raised = {}
  /\ count' = (IF count = MAX THEN 0 ELSE count + 1)
  /\ elapsed' = (elapsed \/ count = MAX)
  /\ due' = {"pass"} \union (IF converting THEN {"conversion"} ELSE {})
                     \union (IF Transmitting THEN {"byte"} ELSE {})
  /\ UNCHANGED <<pc, flag, msg, text, formatted, adc, current, job, stale, refused, usart>>

(* tc_callback_to_adc.                                                     *)
Overflow ==
  /\ Timely => due = {} /\ Raised = {}
  /\ IF count = MAX
     THEN /\ flag' = TRUE
          /\ count' = 0
          /\ elapsed' = TRUE
     ELSE /\ count' = count + 1
          /\ UNCHANGED <<flag, elapsed>>
  /\ due' = {"pass"} \union (IF converting THEN {"conversion"} ELSE {})
                     \union (IF Transmitting THEN {"byte"} ELSE {})
  /\ UNCHANGED <<pc, msg, text, formatted, adc, current, job, stale, refused, usart>>

UsartInterrupt ==
  /\ InterruptHandler(msg)
  /\ UNCHANGED main

EndConversion ==
  /\ converting
  /\ converting' = FALSE
  /\ ready' = TRUE
  /\ due' = due \ {"conversion"}
  /\ UNCHANGED <<pc, flag, count, msg, text, formatted, histories, usart>>

LoadByte ==
  /\ Load
  /\ UNCHANGED main

SendByte ==
  /\ ShiftOut
  /\ due' = due \ {"byte"}
  /\ UNCHANGED <<pc, flag, count, msg, text, formatted, adc, histories>>

Next ==
  MainLoop \/ Overflow \/ UsartInterrupt \/ EndConversion \/ LoadByte \/ SendByte

Spec == Init /\ [][Next]_vars

(* The processor runs the loop and every interrupt that is raised, and the *)
(* peripherals are clocked.                                                *)
FairSpec ==
  /\ Spec
  /\ WF_vars(MainLoop) /\ WF_vars(UsartInterrupt)
  /\ WF_vars(Overflow) /\ WF_vars(EndConversion) /\ WF_vars(LoadByte) /\ WF_vars(SendByte)

----------------------------------------------------------------------------
(* Correctness.                                                            *)

(* What goes over the line for a report is msg from its first byte on, and *)
(* every byte up to the terminator belongs to the measurement the job was  *)
(* requested for: the loop does not format the next one under the driver's *)
(* hands.  (The bytes after the terminator are what longer texts left.)    *)
(* TypeOK is checked with it.                                              *)
WholeReport ==
  /\ TypeOK
  /\ \A i \in 1 .. Len(sent) :
       /\ sent[i].at = i - 1
       /\ i <= job.text => sent[i].byte = job.current

(* No report is lost to a driver that is still busy, although main ignores *)
(* the result of usart_write_buffer_job.                                   *)
NeverRefused == ~refused

(* No report repeats the measurement before, although main ignores the     *)
(* result of adc_read.                                                     *)
NeverStale == ~stale

(* A report is made only for a period that ended since the last one.       *)
OnePerPeriod == [][(pc = "test" /\ pc' = "read") => elapsed]_vars

(* Every job that is accepted is sent to its last byte and reported done.  *)
JobEnds == (call = "point") ~> (status = "STATUS_OK" /\ Len(sent) = Length)

(* Reports go on for ever unless the loop clears, again and again, a flag  *)
(* that was raised after its test.                                         *)
LosesFlag == ClearFlag /\ flag /\ elapsed
ReportsGoOn == <>[][~LosesFlag]_vars => []<>(pc = "read")


============================================================================
