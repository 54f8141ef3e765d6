------------------------------ MODULE As5047p ------------------------------
(***************************************************************************)
(* firmware/drivers/as5047p.cpp: the driver of a joint's absolute encoder,   *)
(* and, as an external part, the encoder at the other end of the SPI lines   *)
(* as the driver describes it: it answers a transfer with the register the   *)
(* transfer before asked for.                                               *)
(*                                                                         *)
(* A 16-bit word is the set of the bits that are 1: a shift moves its       *)
(* members, exclusive or is the symmetric difference, a mask the            *)
(* intersection.                                                           *)
(***************************************************************************)
EXTENDS Integers, FiniteSets, FiniteSetsExt

CONSTANTS
    Angles,        \* contents the angle register may have
    Diagnostics    \* contents the diagnostics register may have

Data == 0 .. 13          \* the bits of a register
ErrorFlag == 14          \* set in a reply while the encoder has an error latched
ParityBit == 15
Word == SUBSET (0 .. 15)

ASSUME RegisterAssumption ==
    Angles \subseteq SUBSET Data /\ Diagnostics \subseteq SUBSET Data

REG_ANGLEC == Data
REG_ERRFL == {0}
REG_DIAAGC == {0, 1}
NoRegister == {13}       \* a word the encoder did not take for a command

\* The error bits, and the mask of what read_diag returns.
NONE == {}
FRERR == {0}
INVCOMM == {1}
PARERR == {2}
ErrorBits == 0 .. 2
DiagBits == 1 .. 4

VARIABLES
    call,       \* the call in progress: "raw", "errors", "diag" or "none"
    step,       \* which of its two transfers is next
    lastError,  \* last_error_
    pending,    \* the encoder's pipeline: the register asked for last
    ret,        \* what the last finished call returned
    flagged,    \* history: an error flag came with this call
    damaged,    \* history: what went wrong with its last transfer, if anything
    sent        \* history: the register and data the encoder sent last

encoderVars == <<call, step, lastError, pending, ret, flagged, damaged, sent>>

Calls == {"raw", "errors", "diag"}
Registers == {REG_ANGLEC, REG_ERRFL, REG_DIAAGC, NoRegister}

EncoderTypeOK ==
    /\ call \in Calls \cup {"none"} /\ step \in 1 .. 2
    /\ lastError \subseteq ErrorBits
    /\ pending \in Registers
    /\ ret \in [call : Calls \cup {"none"}, ok : BOOLEAN, bits : SUBSET Data]
    /\ flagged \in BOOLEAN
    /\ damaged \in {"no", "spi", "parity"}
    /\ sent \in [register : Registers, bits : SUBSET Data]

EncoderInit ==
    /\ call = "none" /\ step = 1
    /\ lastError = NONE
    /\ pending \in Registers
    /\ ret = [call |-> "none", ok |-> TRUE, bits |-> {}]
    /\ flagged = FALSE /\ damaged = "no"
    /\ sent = [register |-> NoRegister, bits |-> {}]

-----------------------------------------------------------------------------
(* Words *)

ShiftRight(v, k) == {i - k : i \in {b \in v : b >= k}}

XorShift(v, k) == SymDiff(v, ShiftRight(v, k))

\* even_parity: whether an odd number of bits are set.
EvenParity(v) == 0 \in XorShift(XorShift(XorShift(XorShift(v, 8), 4), 2), 1)

WithParity(v) == IF EvenParity(v) THEN v \cup {ParityBit} ELSE v

\* read_cmd
ReadCmd(register) == WithParity({ErrorFlag} \cup (register \cap Data))

\* Whether a reply's parity bit is the one its other bits call for.
ParityOk(rx) == EvenParity(rx \ {ParityBit}) <=> ParityBit \in rx

-----------------------------------------------------------------------------
(* The encoder *)

\* A command of even parity is taken, any other is not.
Captured(cmd) ==
    IF Cardinality(cmd) % 2 = 0 THEN cmd \cap Data ELSE NoRegister

Contents(register) ==
    CASE register = REG_ANGLEC -> Angles
      [] register = REG_ERRFL  -> SUBSET ErrorBits
      [] register = REG_DIAAGC -> Diagnostics
      [] OTHER                 -> {{}}

\* The reply, with its error flag and its parity bit.
Reply(bits, flag) ==
    LET body == IF flag THEN bits \cup {ErrorFlag} ELSE bits
    IN  IF Cardinality(body) % 2 = 0 THEN body ELSE body \cup {ParityBit}

\* At most one bit of a reply is turned over on its way.
Noisy(word) == {word} \cup {SymDiff(word, {b}) : b \in 0 .. 15}

-----------------------------------------------------------------------------
(* The driver *)

\* Mutant: the error of an earlier call is kept.
BeginKeepsError(c) ==
    /\ call = "none"
    /\ call' = c /\ step' = 1
    /\ flagged' = FALSE /\ damaged' = "no"
    /\ UNCHANGED <<lastError, pending, ret, sent>>

\* A call starts; only read_raw forgets the error of the call before.
Begin(c) ==
    /\ call = "none"
    /\ call' = c /\ step' = 1
    /\ lastError' = IF c = "raw" THEN NONE ELSE lastError
    /\ flagged' = FALSE /\ damaged' = "no"
    /\ UNCHANGED <<pending, ret, sent>>

RegisterOf(c) ==
    CASE c = "raw" -> REG_ANGLEC [] c = "errors" -> REG_ERRFL [] c = "diag" -> REG_DIAAGC

\* last_error_ after a reply.
Noted(rx) ==
    IF ~ParityOk(rx) THEN PARERR
    ELSE IF ErrorFlag \in rx /\ lastError = NONE THEN INVCOMM
    ELSE lastError

Return(ok, bits) ==
    /\ call' = "none" /\ step' = 1
    /\ ret' = [call |-> call, ok |-> ok, bits |-> bits]

\* What a call does with its transfer: ok is what spi_transfer returned, error
\* what it left in last_error_, and words what `reply` may hold after the second.
\* Mutant: the first transfer's reply is taken.
AfterTransferFirst(ok, error, words) ==
    IF call = "raw" /\ ~ok
    THEN Return(FALSE, {}) /\ lastError' = error
    ELSE \E word \in words :
            /\ Return(TRUE, word \cap Data)
            /\ lastError' = error

AfterTransfer(ok, error, words) ==
    IF call = "raw" /\ ~ok
    THEN Return(FALSE, {}) /\ lastError' = error
    ELSE IF step = 1
    THEN step' = 2 /\ lastError' = error /\ UNCHANGED <<call, ret>>
    ELSE \E word \in words :
            CASE call = "raw"    -> Return(TRUE, word \cap Data) /\ lastError' = error
              [] call = "errors" -> /\ Return(TRUE, word \cap ErrorBits)
                                    /\ lastError' = word \cap ErrorBits
              [] call = "diag"   -> Return(TRUE, word \cap DiagBits) /\ lastError' = error

\* The SPI transfer fails; whether the encoder saw the command is open.  rx is
\* not assigned: `reply`, uninitialized, holds anything.
TransferFails ==
    /\ call # "none"
    /\ damaged' = "spi"
    /\ pending' \in {pending, Captured(ReadCmd(RegisterOf(call)))}
    /\ AfterTransfer(FALSE, FRERR, SUBSET (ErrorBits \cup DiagBits))
    /\ UNCHANGED <<flagged, sent>>

\* rx is assigned before its parity is looked at.
Transfer(bits, flag, rx) ==
    /\ call # "none"
    /\ bits \in Contents(pending)
    /\ rx \in Noisy(Reply(bits, flag))
    /\ damaged' = IF ParityOk(rx) THEN "no" ELSE "parity"
    /\ flagged' = (flagged \/ (ParityOk(rx) /\ ErrorFlag \in rx))
    /\ sent' = [register |-> pending, bits |-> bits]
    /\ pending' = Captured(ReadCmd(RegisterOf(call)))
    /\ AfterTransfer(ParityOk(rx), Noted(rx), {rx})

EncoderNext ==
    \/ \E c \in Calls : Begin(c)
    \/ TransferFails
    \/ \E bits \in Contents(pending), flag \in BOOLEAN :
          \E rx \in Noisy(Reply(bits, flag)) : Transfer(bits, flag, rx)

EncoderSpec == EncoderInit /\ [][EncoderNext]_encoderVars

-----------------------------------------------------------------------------
(* Properties *)

ReadRawDone == call = "none" /\ ret.call = "raw"

\* An angle read_raw accepts is what the encoder held in its angle register,
\* bit for bit, whichever register a call before had left in the encoder's
\* pipeline and whichever bit of a reply was turned over (as5047p.cpp:53-59,
\* 81-90).
AngleIsSound ==
    ReadRawDone /\ ret.ok =>
        sent.register = REG_ANGLEC /\ ret.bits = sent.bits

\* After read_raw the error says how this call ended and nothing of the calls
\* before: a failed transfer, a bad parity, an error flag in either reply, or
\* none (as5047p.cpp:46-67, 79).
ReadRawErrorExact ==
    ReadRawDone =>
        lastError = CASE damaged = "spi"    -> FRERR
                      [] damaged = "parity" -> PARERR
                      [] OTHER              -> IF flagged THEN INVCOMM ELSE NONE
=============================================================================
