------------------------------ MODULE UsartJob ------------------------------
(***************************************************************************)
(* The transmit job of the interrupt-driven USART driver.  A caller hands  *)
(* over a buffer of Length bytes; the interrupt handler reads it, byte by  *)
(* byte, while the caller goes on, and reports the end in tx_status.  An   *)
(* interrupt may fall between any two steps of the call that are outside   *)
(* its critical section.  The SERCOM itself is a data register in front of *)
(* a shift register.                                                       *)
(*                                                                         *)
(* Left out: receiving, aborting a job, nine-bit characters and callbacks, *)
(* none of which the program of this repository uses.                      *)
(***************************************************************************)
EXTENDS Naturals, Sequences

CONSTANT Length   (* Bytes of a job: sizeof(msg).                          *)

ASSUME LengthAssumption == Length \in Nat \ {0}

VARIABLES
  remaining,   (* remaining_tx_buffer_length.                              *)
  ptr,         (* tx_buffer_ptr, as an offset into the buffer.             *)
  status,      (* tx_status.                                               *)
  inten,       (* INTENSET: the interrupts that are enabled.               *)
  full,        (* Whether DATA holds a byte; DRE is raised when it is not. *)
  shifting,    (* Whether a byte is on the line.                           *)
  txc,         (* INTFLAG.TXC.                                             *)
  call,        (* The next step of a call of usart_write_buffer_job.       *)
  sent         (* History: what was read of the buffer for this job.       *)

registers == <<full, shifting, txc>>
usart == <<remaining, ptr, status, inten, registers, call, sent>>

UsartTypeOK ==
  /\ remaining \in 0 .. Length
  /\ ptr \in 0 .. Length
  /\ status \in {"STATUS_OK", "STATUS_BUSY"}
  /\ inten \subseteq {"DRE", "TXC"}
  /\ full \in BOOLEAN /\ shifting \in BOOLEAN /\ txc \in BOOLEAN
  /\ call \in {"none", "point", "mark", "enable"}
  /\ Len(sent) <= Length

UsartInit ==
  /\ remaining = 0
  /\ ptr = 0
  /\ status = "STATUS_OK"
  /\ inten = {}
  /\ full = FALSE /\ shifting = FALSE /\ txc = FALSE
  /\ call = "none"
  /\ sent = <<>>

----------------------------------------------------------------------------
(* usart_write_buffer_job.                                                 *)

(* The critical section: a job that still has bytes refuses the next one.  *)
Busy == remaining > 0

Reserve ==
  /\ remaining' = Length
  /\ call' = "point"
  /\ sent' = <<>>
  /\ UNCHANGED <<ptr, status, inten, registers>>

(* The three assignments after it.                                         *)
Point ==
  /\ call = "point"
  /\ ptr' = 0
  /\ call' = "mark"
  /\ UNCHANGED <<remaining, status, inten, registers, sent>>

Mark ==
  /\ call = "mark"
  /\ status' = "STATUS_BUSY"
  /\ call' = "enable"
  /\ UNCHANGED <<remaining, ptr, inten, registers, sent>>

Enable ==
  /\ call = "enable"
  /\ inten' = inten \union {"DRE"}
  /\ call' = "none"
  /\ UNCHANGED <<remaining, ptr, status, registers, sent>>

CallStep == Point \/ Mark \/ Enable

----------------------------------------------------------------------------
(* _usart_interrupt_handler: the flags are read once, then both branches   *)
(* run on what was read.                                                   *)

Raised == {i \in inten : (i = "DRE" /\ ~full) \/ (i = "TXC" /\ txc)}

(* Mutation: the last byte does not enable the interrupt for its completion. *)
AfterDREOnly ==
  IF "DRE" \in Raised /\ remaining <= 1 THEN inten \ {"DRE"} ELSE inten

(* INTENSET after the branch for DRE.                                      *)
AfterDRE ==
  CASE "DRE" \notin Raised \/ remaining > 1 -> inten
    [] "DRE" \in Raised /\ remaining = 1 -> (inten \ {"DRE"}) \union {"TXC"}
    [] "DRE" \in Raised /\ remaining = 0 -> inten \ {"DRE"}

AfterTXC(enabled) == IF "TXC" \in Raised THEN enabled \ {"TXC"} ELSE enabled

InterruptHandler(buffer) ==
  /\ Raised # {}
  /\ inten' = AfterTXC(AfterDRE)
  /\ status' = IF "TXC" \in Raised THEN "STATUS_OK" ELSE status
  /\ IF "DRE" \in Raised /\ remaining > 0
     THEN /\ sent' = Append(sent, [at |-> ptr, byte |-> buffer[ptr]])
          /\ ptr' = ptr + 1
          /\ remaining' = remaining - 1
          /\ full' = TRUE
          /\ txc' = FALSE      \* writing DATA clears the flag
     ELSE UNCHANGED <<sent, ptr, remaining, full, txc>>
  /\ UNCHANGED <<shifting, call>>

----------------------------------------------------------------------------
(* The SERCOM.                                                             *)

Load ==
  /\ full /\ ~shifting
  /\ full' = FALSE
  /\ shifting' = TRUE
  /\ UNCHANGED <<remaining, ptr, status, inten, txc, call, sent>>

ShiftOut ==
  /\ shifting
  /\ shifting' = FALSE
  /\ txc' = (txc \/ ~full)
  /\ UNCHANGED <<remaining, ptr, status, inten, full, call, sent>>

Transmitting == remaining > 0 \/ full \/ shifting


============================================================================
