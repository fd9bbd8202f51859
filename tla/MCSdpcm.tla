------------------------------ MODULE MCSdpcm ------------------------------
(* Small instances of Sdpcm.                                               *)
EXTENDS Sdpcm

\* Frames that differ for the credits: lost with its credit, and with one.
CreditShapes == {"damaged", "data"}

\* Frames that differ for the calls.
CallShapes == {"data", "event"}

\* Frames that can lead to a garbled send.
FewShapes == {"credit", "data"}

\* Frames that differ for the liveness of the calls: one that leads to an upcall,
\* one too small to have a header, one too small for its channel, and one of an
\* unknown channel.
OtherShapes == {"data", "tiny", "runt", "alien"}

\* A chip that never uses flow control, and one that does.
NoFlow == {FALSE}
AnyFlow == BOOLEAN

\* Bound: a driver that a failed read has misled is not followed further; the
\* properties of the credits say nothing of it.
NotMisled == ~misled

\* What a failed read may look like: the driver's own frames have credit 0.
Own(shape, id) == [shape |-> shape, credit |-> 0, flow |-> FALSE, id |-> id]

\* For the credits: any credit.
CreditLeftovers == {[Own("data", 0) EXCEPT !.credit = c] : c \in SeqNumbers}

\* For the calls: the request of any ioctl, which passes for its reply, an event
\* read before, and a header that does not match.
CallLeftovers == {Own("reply", id) : id \in Ids} \cup {Own("event", 0), Own("damaged", 0)}

\* For liveness: a frame that leads to an upcall.
FewLeftovers == {Own("data", 0)}

NoLeftovers == {}
=============================================================================
