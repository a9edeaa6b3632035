----------------------------- MODULE DgramBits -----------------------------
(***************************************************************************)
(* The bit maps of a UdpSlot (UdpSlot.h:232-268).  They are not cleared    *)
(* when the slot is taken, but byte by byte when they are looked at:       *)
(* isOn(), setBit() and clrBit() clear the byte of a dgram whose number is *)
(* not less than m_numBitsInitialized, and add 8 to that.  So a byte that  *)
(* is skipped keeps what the slot's last user left in it, and a byte       *)
(* reached too early is cleared twice, with bits on.                       *)
(*                                                                         *)
(* One slot that reads a message of many dgrams, from a sender that keeps  *)
(* to its window.                                                          *)
(***************************************************************************)
EXTENDS Integers, FiniteSets

CONSTANTS
    NumDgrams,  \* dgrams of the message
    ByteBits,   \* 8
    AckWindow,  \* ACK_WINDOW_SIZE
    Strays      \* the slot's first dgram may be any: what a server sees that
                \* restarts in the middle of a message

ASSUME DgramBitsAssumption ==
    /\ NumDgrams \in Nat
    /\ ByteBits \in Nat \ {0}
    /\ AckWindow \in 1 .. ByteBits
    /\ Strays \in BOOLEAN

Dgram == 0 .. NumDgrams - 1

VARIABLES
    numInit,  \* m_numBitsInitialized
    cleared,  \* the bytes that have been cleared
    read,     \* the dgrams read
    sound     \* no byte was used before it was cleared, or cleared once more

bitsVars == <<numInit, cleared, read, sound>>

DgramBitsInit == numInit = 0 /\ cleared = {} /\ read = {} /\ sound = TRUE

\* isOn(), setBit(), clrBit(), once or several times for one dgram.
Touch(n) ==
    LET byte == n \div ByteBits IN
    IF n >= numInit
    THEN /\ numInit' = numInit + ByteBits
         /\ cleared' = cleared \cup {byte}
         /\ sound' = (sound /\ byte \notin cleared /\ n < numInit + ByteBits)
    ELSE /\ sound' = (sound /\ byte \in cleared)
         /\ UNCHANGED <<numInit, cleared>>

(* Mutant: the sender does not wait for acks. *)
SendableAny(n) == TRUE

\* The sender has sent dgram n: of those before it all but a window have been
\* acknowledged, and so read.
Sendable(n) == n < Cardinality(read) + AckWindow

\* readDatagramOrAck().
ReadDatagram(n) ==
    /\ Sendable(n) \/ (Strays /\ read = {})
    /\ Touch(n)
    /\ read' = read \cup {n}

\* sendAck() looks for a dgram to acknowledge, up to one beyond those read.
LookForAck(n) ==
    /\ \E m \in read : n <= m + 1
    /\ Touch(n)
    /\ UNCHANGED read

DgramBitsNext == \E n \in Dgram : ReadDatagram(n) \/ LookForAck(n)

DgramBitsSpec == DgramBitsInit /\ [][DgramBitsNext]_bitsVars

-----------------------------------------------------------------------------
\* What the bits say of a dgram is what has been done with it: the bytes of a
\* message of any length are cleared in their order, each of them once.  It
\* takes a window that is no larger than a byte (UdpSlot.cpp:86-99 has seen 50).
BitsSound == sound
=============================================================================
