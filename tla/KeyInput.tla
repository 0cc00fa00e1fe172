---- MODULE KeyInput ----
(***************************************************************************)
(* How the viewer reads a key (read_key, decode_key, decode_escape,        *)
(* decode_csi and poll_stdin in tui.rs). Bytes wait in two places: in the  *)
(* kernel, which poll looks at, and in the buffer of std::io::Stdin, which *)
(* one read of a single byte fills with all the kernel has.                *)
(***************************************************************************)
EXTENDS Naturals, Sequences, SequencesExt

CONSTANTS Keys,     \* keys the user presses, a subset of DOMAIN Codes
          MaxKeys   \* bound on the keys pressed

\* What the terminal sends for a key: some function keys have more than one form.
Codes == [j    |-> {<<"j">>},
          Esc  |-> {<<"esc">>},
          Down |-> {<<"esc", "[", "B">>},
          Home |-> {<<"esc", "[", "H">>, <<"esc", "O", "H">>, <<"esc", "[", "1", "~">>},
          PageDown |-> {<<"esc", "[", "6", "~">>}]

VARIABLES
  kernel, buffer,    \* bytes not read, and bytes read ahead
  hungUp,            \* the terminal has gone: reads return 0
  prefix,            \* the bytes of the key being decoded
  pc,                \* "poll" or "read"
  pressed, handled   \* history: keys of the user, keys passed to the viewer
vars == <<kernel, buffer, hungUp, prefix, pc, pressed, handled>>

Init ==
  /\ kernel = <<>> /\ buffer = <<>> /\ hungUp = FALSE
  /\ prefix = <<>> /\ pc = "poll"
  /\ pressed = <<>> /\ handled = <<>>

-----------------------------------------------------------------------------
(* The terminal *)

\* All bytes of a key are written at once.
Press(key) ==
  /\ ~hungUp /\ Len(pressed) < MaxKeys
  /\ \E code \in Codes[key] : kernel' = kernel \o code
  /\ pressed' = Append(pressed, key)
  /\ UNCHANGED <<buffer, hungUp, prefix, pc, handled>>

HangUp ==
  /\ ~hungUp
  /\ hungUp' = TRUE
  /\ UNCHANGED <<kernel, buffer, prefix, pc, pressed, handled>>

-----------------------------------------------------------------------------
(* The event loop *)

Emit(key) == /\ handled' = Append(handled, key)
             /\ prefix' = <<>> /\ pc' = "poll"

\* What decode_csi and decode_escape make of the whole sequence.
Decoded(bytes) ==
  CASE bytes = <<"j">> -> "j"
    [] bytes = <<"esc", "[", "B">> -> "Down"
    [] bytes \in {<<"esc", "[", "H">>, <<"esc", "O", "H">>, <<"esc", "[", "1", "~">>} -> "Home"
    [] bytes = <<"esc", "[", "6", "~">> -> "PageDown"
    [] bytes \in {<<"[">>, <<"O">>, <<"B">>, <<"H">>, <<"1">>, <<"6">>, <<"~">>} -> "char"
    [] OTHER -> "Esc"
\* More bytes are asked for.
Incomplete(bytes) ==
  bytes \in {<<"esc">>, <<"esc", "[">>, <<"esc", "O">>, <<"esc", "[", "1">>, <<"esc", "[", "6">>}

\* poll_stdin(250) or poll_stdin(50): it asks the kernel, whatever the buffer holds.
PollReady ==
  /\ pc = "poll" /\ (kernel # <<>> \/ hungUp)
  /\ pc' = "read"
  /\ UNCHANGED <<kernel, buffer, hungUp, prefix, pressed, handled>>

\* Between keys it is asked again, within one the sequence is taken for Esc.
PollTimesOut ==
  /\ pc = "poll" /\ kernel = <<>> /\ ~hungUp
  /\ IF prefix = <<>> THEN UNCHANGED <<prefix, pc, handled>> ELSE Emit("Esc")
  /\ UNCHANGED <<kernel, buffer, hungUp, pressed>>

\* BufReader: an empty buffer is filled with all that has arrived.
ReadByte ==
  /\ pc = "read" /\ (buffer # <<>> \/ kernel # <<>>)
  /\ LET ready == IF buffer = <<>> THEN kernel ELSE buffer
         bytes == Append(prefix, Head(ready))
     IN /\ buffer' = Tail(ready)
        /\ kernel' = IF buffer = <<>> THEN <<>> ELSE kernel
        /\ IF Incomplete(bytes)
             THEN prefix' = bytes /\ pc' = "poll" /\ UNCHANGED handled
             ELSE Emit(Decoded(bytes))
  /\ UNCHANGED <<hungUp, pressed>>

\* read returns 0: Ctrl-C between keys, Esc within one.
ReadNothing ==
  /\ pc = "read" /\ buffer = <<>> /\ kernel = <<>>
  /\ Emit(IF prefix = <<>> THEN "CtrlC" ELSE "Esc")
  /\ UNCHANGED <<kernel, buffer, hungUp, pressed>>

\* The viewer quits with Esc (its help is not shown here) and Ctrl-C.
Running == ~Contains(handled, "Esc") /\ ~Contains(handled, "CtrlC")

Next == /\ Running
        /\ \/ \E key \in Keys : Press(key)
           \/ HangUp \/ PollReady \/ PollTimesOut \/ ReadByte \/ ReadNothing
Spec == Init /\ [][Next]_vars

-----------------------------------------------------------------------------
(* Properties *)

\* README.md:105-109: the arrows and the other function keys do what they are for, and
\* Esc quits. So what is handled is what was pressed, in its order, as long as the
\* terminal is there. (The first byte read takes the rest of the sequence into the
\* buffer; poll then sees nothing, and an arrow is an Esc.)
KeysAreHandledAsPressed == ~hungUp => IsPrefix(handled, pressed)
====
