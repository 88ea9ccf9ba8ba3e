------------------------------- MODULE Console -------------------------------
(***************************************************************************)
(* The console of kern/cons/console.c and the line editor of               *)
(* lib/readline.c.  Keyboard and serial port deliver on their own; nobody  *)
(* handles their interrupts, so that characters stay in the devices until  *)
(* getchar() polls: cons_getc() in the kernel, which takes everything the  *)
(* devices have, and cons_getc2() behind sys_cgetc(), which takes one      *)
(* character of each.  A reader is between two device reads at any moment. *)
(***************************************************************************)
EXTENDS Integers, Sequences, SequencesExt, FiniteSets

CONSTANTS
  CONSBUFSIZE,          \* the size of cons.buf
  CRT_ROWS, CRT_COLS,   \* the size of the screen
  BUFLEN,               \* the size of readline()'s buffer
  Keys,                 \* the keys that are used
  SerialChars,          \* what the serial port receives
  Outputs,              \* what is printed between two lines
  PortSize,             \* what the keyboard controller keeps
  MaxEvents             \* bound on the key strokes and the received characters

CRT_SIZE == CRT_ROWS * CRT_COLS

ASSUME ConsoleAssumption ==
  /\ CONSBUFSIZE \in Nat \ {0}
  /\ CRT_ROWS \in Nat \ {0} /\ CRT_COLS \in Nat \ {0}
  /\ BUFLEN \in Nat \ {0} /\ BUFLEN - 1 <= CRT_SIZE - CRT_COLS
  /\ Outputs \subseteq Seq(STRING)

VARIABLES
  keyboard,   \* [port: the bytes in the controller, down: the keys held down]
  serial,     \* the character in COM_RX, or "none"
  events,     \* how much has been typed and received
  shift,      \* the modifier bits of kbd_proc_data()
  cons,       \* [buf, rpos, wpos]
  unread,     \* what cons should hold: the characters put in and not read
  overrun,    \* CONSBUFSIZE characters were unread at once
  reader,     \* [mode, at, c]: who reads, the next step, the last character
  line,       \* buf[0 .. i - 1] of readline()
  screen      \* [buf: crt_buf, pos: crt_pos]

devices == <<keyboard, serial, events>>
console == <<keyboard, serial, events, shift, cons, unread, overrun, reader, line, screen>>
-----------------------------------------------------------------------------
(***************************************************************************)
(* The keyboard, in scan codes: a key sends its code when it goes down and *)
(* the code with bit 7 when it comes up, the grey keys after 0xE0.  A key  *)
(* that is held repeats its code.                                          *)
(***************************************************************************)
E0 == 224
Key == [LSHIFT |-> <<42>>, RSHIFT |-> <<54>>, LCTL |-> <<29>>, RCTL |-> <<E0, 29>>,
        LALT |-> <<56>>, RALT |-> <<E0, 56>>, CAPS |-> <<58>>, A |-> <<30>>,
        BACKSPACE |-> <<14>>, ENTER |-> <<28>>, DELETE |-> <<E0, 83>>]
released(code) == [code EXCEPT ![Len(code)] = @ + 128]

ASSUME KeysAssumption == Keys \subseteq DOMAIN Key

(***************************************************************************)
(* shiftcode[], togglecode[] and the entries of normalmap[], shiftmap[]    *)
(* and ctlmap[] for these keys.  "NO" is 0: no character.                  *)
(***************************************************************************)
shiftcode(d) ==
  CASE d \in {42, 54} -> {"SHIFT"} [] d \in {29, 157} -> {"CTL"}
    [] d \in {56, 184} -> {"ALT"} [] OTHER -> {}
togglecode(d) == IF d = 58 THEN {"CAPSLOCK"} ELSE {}

normalmap(d) ==
  CASE d = 30 -> "a" [] d = 14 -> "BS" [] d = 28 -> "NL" [] d = 211 -> "KEY_DEL" [] OTHER -> "NO"
shiftmap(d) == IF d = 30 THEN "A" ELSE normalmap(d)
ctlmap(d) ==
  CASE d = 30 -> "C-a" [] d = 28 -> "CR" [] d = 211 -> "KEY_DEL" [] OTHER -> "NO"

charcode(bits, d) ==
  CASE "CTL" \in bits -> ctlmap(d) [] "SHIFT" \in bits -> shiftmap(d) [] OTHER -> normalmap(d)

capitals(c) == CASE c = "a" -> "A" [] c = "A" -> "a" [] OTHER -> c

(***************************************************************************)
(* kbd_proc_data(): the modifier bits and the character after one byte.    *)
(***************************************************************************)
kbd_proc_data(bits, data) ==
  LET escaped == "E0ESC" \in bits
      up == IF escaped THEN data ELSE data - 128
      d == IF escaped THEN data + 128 ELSE data
      now == (bits \ {"E0ESC"}) \cup shiftcode(d)
      locked == (now \ togglecode(d)) \cup (togglecode(d) \ now)
      c == charcode(locked, d)
  IN IF data = E0 THEN [bits |-> bits \cup {"E0ESC"}, c |-> "NO"]
     ELSE IF data >= 128 THEN [bits |-> bits \ (shiftcode(up) \cup {"E0ESC"}), c |-> "NO"]
     ELSE [bits |-> locked, c |-> IF "CAPSLOCK" \in locked THEN capitals(c) ELSE c]

(***************************************************************************)
(* Ctrl-Alt-Del.                                                           *)
(***************************************************************************)
reboots(p) == {"CTL", "ALT"} \subseteq p.bits /\ p.c = "KEY_DEL"
-----------------------------------------------------------------------------
(***************************************************************************)
(* The ring: a character is stored at wpos, and the next one read at rpos. *)
(***************************************************************************)
next_pos_early(pos) == IF pos + 1 >= CONSBUFSIZE - 1 THEN 0 ELSE pos + 1
next_pos(pos) == IF pos + 1 = CONSBUFSIZE THEN 0 ELSE pos + 1

store(c) ==
  IF c = "NO" THEN UNCHANGED <<cons, unread, overrun>>
  ELSE /\ cons' = [cons EXCEPT !.buf[cons.wpos] = c, !.wpos = next_pos(@)]
       /\ unread' = Append(unread, c)
       /\ overrun' = (overrun \/ Len(unread) + 1 >= CONSBUFSIZE)

(***************************************************************************)
(* The screen: cga_putc().  A tab is five blanks; when the cursor has left *)
(* the last row everything moves up by a row.                              *)
(***************************************************************************)
scroll(s) ==
  IF s.pos < CRT_SIZE THEN s
  ELSE [buf |-> [i \in DOMAIN s.buf |->
                   IF i + CRT_COLS < CRT_SIZE THEN s.buf[i + CRT_COLS] ELSE " "],
        pos |-> s.pos - CRT_COLS]

start_of_row(pos) == pos - (pos % CRT_COLS)

put(s, c) ==
  scroll(CASE c = "BS" -> IF s.pos > 0 THEN [buf |-> [s.buf EXCEPT ![s.pos - 1] = " "], pos |-> s.pos - 1]
                          ELSE s
           [] c = "NL" -> [s EXCEPT !.pos = start_of_row(@ + CRT_COLS)]
           [] c = "CR" -> [s EXCEPT !.pos = start_of_row(@)]
           [] OTHER -> [buf |-> [s.buf EXCEPT ![s.pos] = c], pos |-> s.pos + 1])

cga_putc(s, c) == IF c = "TAB" THEN FoldLeft(put, s, <<" ", " ", " ", " ", " ">>) ELSE put(s, c)

cprintf(s, text) == FoldLeft(cga_putc, s, text)
-----------------------------------------------------------------------------
cga_init == [buf |-> [i \in 0 .. CRT_SIZE - 1 |-> " "], pos |-> 0]

ConsoleInit ==
  /\ keyboard = [port |-> <<>>, down |-> {}]
  /\ serial = "absent"
  /\ events = 0
  /\ shift = {}
  /\ cons = [buf |-> [i \in 0 .. CONSBUFSIZE - 1 |-> "NO"], rpos |-> 0, wpos |-> 0]
  /\ unread = <<>> /\ overrun = FALSE
  /\ reader = [mode |-> "kernel", at |-> "initialize", c |-> "NO"]
  /\ line = <<>>
  /\ screen = cga_init

(***************************************************************************)
(* console_initialize(): serial_init() finds a serial port or none.  Then  *)
(* readline() is called, in the kernel's prompt or in a user program.      *)
(***************************************************************************)
console_initialize(port, mode) ==
  /\ reader.at = "initialize"
  /\ serial' = port
  /\ reader' = [reader EXCEPT !.at = "prompt", !.mode = mode]
  /\ UNCHANGED <<keyboard, events, shift, cons, unread, overrun, line, screen>>

(***************************************************************************)
(* The devices, external to the code.                                      *)
(***************************************************************************)
sends(bytes, downs) ==
  /\ events < MaxEvents /\ reader.at # "initialize"
  /\ Len(keyboard.port) + Len(bytes) <= PortSize
  /\ keyboard' = [port |-> keyboard.port \o bytes, down |-> downs]
  /\ events' = events + 1
  /\ UNCHANGED <<serial, shift, cons, unread, overrun, reader, line, screen>>

press(k) == sends(Key[k], keyboard.down \cup {k})
release(k) == k \in keyboard.down /\ sends(released(Key[k]), keyboard.down \ {k})

receive(c) ==
  /\ serial # "absent"
  /\ events < MaxEvents
  /\ serial' = c
  /\ events' = events + 1
  /\ UNCHANGED <<keyboard, shift, cons, unread, overrun, reader, line, screen>>

(***************************************************************************)
(* readline(): prints the prompt ...                                       *)
(***************************************************************************)
prompt ==
  /\ reader.at = "prompt"
  /\ \E text \in Outputs : screen' = cprintf(screen, text)
  /\ line' = <<>>
  /\ reader' = [reader EXCEPT !.at = "serial"]
  /\ UNCHANGED <<devices, shift, cons, unread, overrun>>

(***************************************************************************)
(* ... and calls getchar().  serial_intr() takes what the port has, until  *)
(* it has nothing; cons_getc2() takes one character.                       *)
(***************************************************************************)
serial_intr ==
  /\ reader.at = "serial"
  /\ IF serial \in {"none", "absent"}
     THEN /\ reader' = [reader EXCEPT !.at = "keyboard"]
          /\ UNCHANGED <<serial, cons, unread, overrun>>
     ELSE /\ serial' = "none"
          /\ store(serial)
          /\ reader' = [reader EXCEPT !.at = IF reader.mode = "kernel" THEN "serial" ELSE "keyboard"]
  /\ UNCHANGED <<keyboard, events, shift, line, screen>>

(***************************************************************************)
(* kbd_intr() likewise.  cons_getc2() goes on to read the ring only when   *)
(* the keyboard has sent a character.                                      *)
(***************************************************************************)
kbd_intr ==
  /\ reader.at = "keyboard"
  /\ IF keyboard.port = <<>>
     THEN /\ reader' = [reader EXCEPT !.at = IF reader.mode = "kernel" THEN "ring" ELSE "serial"]
          /\ UNCHANGED <<keyboard, shift, cons, unread, overrun>>
     ELSE LET p == kbd_proc_data(shift, Head(keyboard.port))
          IN /\ keyboard' = [keyboard EXCEPT !.port = Tail(@)]
             /\ shift' = p.bits
             /\ store(p.c)
             /\ reader' = [reader EXCEPT !.at =
                             CASE reboots(p) -> "rebooting"
                               [] reader.mode = "kernel" -> "keyboard"
                               [] p.c = "NO" -> "serial"
                               [] OTHER -> "ring"]
  /\ UNCHANGED <<serial, events, line, screen>>

(***************************************************************************)
(* The end of cons_getc() and cons_getc2(); getchar() calls again until a  *)
(* character has come.                                                     *)
(***************************************************************************)
grab ==
  /\ reader.at = "ring"
  /\ IF cons.rpos = cons.wpos
     THEN /\ reader' = [reader EXCEPT !.at = "serial"]
          /\ UNCHANGED <<cons, unread>>
     ELSE /\ reader' = [reader EXCEPT !.at = "edit", !.c = cons.buf[cons.rpos]]
          /\ cons' = [cons EXCEPT !.rpos = next_pos(@)]
          /\ unread' = IF unread = <<>> THEN unread ELSE Tail(unread)
  /\ UNCHANGED <<devices, shift, overrun, line, screen>>

(***************************************************************************)
(* The body of readline()'s loop.  KEY_DEL and the like are characters.    *)
(***************************************************************************)
printable(c) == c \notin {"BS", "NL", "CR", "C-a", "TAB"}

edit_echoes_always ==
  /\ reader.at = "edit"
  /\ screen' = cga_putc(screen, reader.c)
  /\ line' = IF printable(reader.c) THEN IF Len(line) < BUFLEN - 1 THEN Append(line, reader.c) ELSE line
             ELSE IF reader.c = "BS" /\ line # <<>> THEN Front(line) ELSE line
  /\ reader' = [reader EXCEPT !.at = IF reader.c \in {"NL", "CR"} THEN "prompt" ELSE "serial"]
  /\ UNCHANGED <<devices, shift, cons, unread, overrun>>

edit ==
  /\ reader.at = "edit"
  /\ LET c == reader.c
         echo(newLine, next) ==
           /\ screen' = cga_putc(screen, c)
           /\ line' = newLine
           /\ reader' = [reader EXCEPT !.at = next]
     IN IF printable(c) /\ Len(line) < BUFLEN - 1 THEN echo(Append(line, c), "serial")
        ELSE IF c = "BS" /\ line # <<>> THEN echo(Front(line), "serial")
        ELSE IF c \in {"NL", "CR"} THEN echo(line, "prompt")
        ELSE reader' = [reader EXCEPT !.at = "serial"] /\ UNCHANGED <<line, screen>>
  /\ UNCHANGED <<devices, shift, cons, unread, overrun>>

ConsoleNext ==
  \/ \E port \in {"none", "absent"}, mode \in {"kernel", "user"} : console_initialize(port, mode)
  \/ \E k \in Keys : press(k) \/ release(k)
  \/ \E c \in SerialChars : receive(c)
  \/ prompt \/ serial_intr \/ kbd_intr \/ grab \/ edit
-----------------------------------------------------------------------------
Char == {"a", "A", "C-a", "BS", "NL", "CR", "KEY_DEL"} \cup SerialChars

(***************************************************************************)
(* The positions stay inside cons.buf, crt_buf and readline()'s buffer.    *)
(***************************************************************************)
ConsoleTypeOK ==
  /\ cons \in [buf : [0 .. CONSBUFSIZE - 1 -> Char \cup {"NO"}],
               rpos : 0 .. CONSBUFSIZE - 1, wpos : 0 .. CONSBUFSIZE - 1]
  /\ shift \subseteq {"SHIFT", "CTL", "ALT", "CAPSLOCK", "E0ESC"}
  /\ unread \in Seq(Char) /\ overrun \in BOOLEAN
  /\ line \in Seq(Char) /\ Len(line) < BUFLEN
  /\ screen.pos \in 0 .. CRT_SIZE - 1 /\ DOMAIN screen.buf = 0 .. CRT_SIZE - 1

(***************************************************************************)
(* Between rpos and wpos the ring holds exactly the characters that were   *)
(* put in and not yet read, in the order they came, unless CONSBUFSIZE of  *)
(* them were once waiting: cons_intr() does not look at rpos.              *)
(***************************************************************************)
RingIsQueue ==
  ~overrun =>
    /\ Len(unread) = (cons.wpos - cons.rpos) % CONSBUFSIZE
    /\ \A i \in DOMAIN unread : unread[i] = cons.buf[(cons.rpos + i - 1) % CONSBUFSIZE]

(***************************************************************************)
(* No modifier gets stuck: once the bytes are consumed, SHIFT, CTL and ALT *)
(* are set in kbd_proc_data()'s shift only while one of their keys is      *)
(* held, left or right, and no escape is pending.                          *)
(***************************************************************************)
NoStuckModifier ==
  keyboard.port = <<>> =>
    /\ "E0ESC" \notin shift
    /\ "SHIFT" \in shift => keyboard.down \cap {"LSHIFT", "RSHIFT"} # {}
    /\ "CTL" \in shift => keyboard.down \cap {"LCTL", "RCTL"} # {}
    /\ "ALT" \in shift => keyboard.down \cap {"LALT", "RALT"} # {}

(***************************************************************************)
(* A character reaches its reader as it was typed and when it was typed:   *)
(* with the modifiers that are held, and in order through the ring.        *)
(***************************************************************************)
InputAsTyped == RingIsQueue /\ NoStuckModifier

(***************************************************************************)
(* What readline() will return is what the user sees in front of the       *)
(* cursor, through line wraps, scrolling and rubbing out.                  *)
(***************************************************************************)
EchoMatchesLine ==
  reader.at \in {"serial", "keyboard", "ring", "edit"} =>
    \A i \in DOMAIN line :
      LET cell == screen.pos - Len(line) + i - 1
      IN cell >= 0 /\ screen.buf[cell] = line[i]
==============================================================================
