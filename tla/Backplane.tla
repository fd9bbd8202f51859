----------------------------- MODULE Backplane ------------------------------
(***************************************************************************)
(* The window through which the host reaches the chip's backplane: an       *)
(* address register of three bytes in the chip and the driver's copy of it  *)
(* (cur_backplane_window), which saves the writes of bytes that stay.        *)
(***************************************************************************)
EXTENDS Naturals

\* The bytes of a window's address that the chip has a register for.
Bytes == {"high", "mid", "low"}
Byte == 0 .. 255
Windows == [Bytes -> Byte]

At(high, mid, low) ==
    [b \in Bytes |-> CASE b = "high" -> high [] b = "mid" -> mid [] b = "low" -> low]

Zero == At(0, 0, 0)          \* the chip's register after a reset
ChipCommon == At(24, 0, 0)   \* CHIPCOMMON, SDIO and SOCSRAM registers
Wrappers == At(24, 16, 0)    \* the wrappers of the ARM and SOCRAM cores

\* The window of the block-th 16 KB of RAM; a window spans 32 KB.
RamWindow(block) == At(0, block \div 4, 128 * ((block \div 2) % 2))

\* The bytes that cyw43_set_backplane_window writes to get from cur to new.
Changed(cur, new) == {b \in Bytes : new[b] # cur[b]}

\* Mutated form: only the highest of the bytes that change is written.
SetFirstByte(reg, cur, new, lost) ==
    LET changed == Changed(cur, new)
        first == CASE "high" \in changed -> {"high"}
                   [] "mid" \in changed /\ "high" \notin changed -> {"mid"}
                   [] OTHER -> changed
    IN [b \in Bytes |-> IF b \in first \ lost THEN new[b] ELSE reg[b]]

\* The chip's register, reg before, once the window is set while the driver
\* believes it to be cur.  The driver does not notice the writes that are lost.
SetWindow(reg, cur, new, lost) ==
    [b \in Bytes |-> IF b \in Changed(cur, new) \ lost THEN new[b] ELSE reg[b]]
=============================================================================
