------------------------------ MODULE Keyboard -------------------------------
(***************************************************************************)
(* devices/kbd.c: keyboard_interrupt() turns the codes of keys that go     *)
(* down and up into characters.  A code has its prefix byte, if any, as    *)
(* its high byte.  Keys repeat while they are down.                        *)
(***************************************************************************)
EXTENDS Integers, Sequences

CONSTANTS
  Scancode,        \* the keys of the keyboard
  MaxInput         \* room in the input buffer

VARIABLES
  held,            \* the shift keys whose variable is TRUE
  caps_lock, input_buffer, rebooted,
  down,            \* the keys that are down
  typed            \* history: what should have come into the buffer
keyboardVars == <<held, caps_lock, input_buffer, rebooted, down, typed>>

CAPS_LOCK == 58                                            \* 0x3a
Shift == {42, 54}                                          \* 0x2a, 0x36
Alt == {56, 57400}                                         \* 0x38, 0xe038
Ctrl == {29, 57373}                                        \* 0x1d, 0xe01d
shift_keys == Shift \cup Alt \cup Ctrl
DELETE == 127

KeyboardInit ==
  /\ held = {} /\ caps_lock = FALSE /\ input_buffer = <<>> /\ rebooted = FALSE
  /\ down = {} /\ typed = <<>>

keymap(first, chars) == [first |-> first, chars |-> chars]

(* Keys that give the same character with and without shift.               *)
invariant_keymap ==
  << keymap(1, <<27>>), keymap(14, <<8>>),
     keymap(15, <<9, 81, 87, 69, 82, 84, 89, 85, 73, 79, 80>>), keymap(28, <<13>>),
     keymap(30, <<65, 83, 68, 70, 71, 72, 74, 75, 76>>),
     keymap(44, <<90, 88, 67, 86, 66, 78, 77>>),
     keymap(55, <<42>>), keymap(57, <<32>>), keymap(83, <<DELETE>>) >>

unshifted_keymap ==
  << keymap(2, <<49, 50, 51, 52, 53, 54, 55, 56, 57, 48, 45, 61>>), keymap(26, <<91, 93>>),
     keymap(39, <<59, 39, 96>>), keymap(43, <<92>>), keymap(51, <<44, 46, 47>>) >>

shifted_keymap ==
  << keymap(2, <<33, 64, 35, 36, 37, 94, 38, 42, 40, 41, 95, 43>>), keymap(26, <<123, 125>>),
     keymap(39, <<58, 34, 126>>), keymap(43, <<124>>), keymap(51, <<60, 62, 63>>) >>

NoChar == -1
map_key(k, code) ==
  LET maps == {i \in DOMAIN k : code >= k[i].first /\ code < k[i].first + Len(k[i].chars)}
      i == CHOOSE i \in maps : \A j \in maps : i <= j
  IN IF maps = {} THEN NoChar ELSE k[i].chars[code - k[i].first + 1]

ordinary(code) ==
  LET c == map_key(invariant_keymap, code)
  IN IF c # NoChar THEN c
     ELSE map_key(IF held \cap Shift = {} THEN unshifted_keymap ELSE shifted_keymap, code)

tolower(c) == IF c \in 65 .. 90 THEN c + 32 ELSE c

(* Control overrides shift; Alt sets the high bit.                         *)
modified(c) ==
  LET shift == held \cap Shift # {}
      d == IF held \cap Ctrl # {} /\ c \in 64 .. 95 THEN c - 64
           ELSE IF shift = caps_lock THEN tolower(c) ELSE c
  IN IF held \cap Alt # {} THEN d + 128 ELSE d

(* Mutant: a released shift key counts as one that is down.                *)
shift_on(code, release) == held \cup {code}
shift_key(code, release) == IF release THEN held \ {code} ELSE held \cup {code}

keyboard_interrupt_(code, release) ==
  LET c == ordinary(code)
  IN \/ /\ code = CAPS_LOCK
        /\ caps_lock' = IF release THEN caps_lock ELSE ~caps_lock
        /\ UNCHANGED <<held, input_buffer, rebooted>>
     \/ /\ code # CAPS_LOCK /\ c # NoChar
        /\ rebooted' = (~release /\ c = DELETE /\ held \cap Ctrl # {} /\ held \cap Alt # {})
        /\ input_buffer' = IF release \/ rebooted' \/ Len(input_buffer) = MaxInput
                           THEN input_buffer ELSE Append(input_buffer, modified(c))
        /\ UNCHANGED <<held, caps_lock>>
     \/ /\ code # CAPS_LOCK /\ c = NoChar
        /\ held' = IF code \in shift_keys THEN shift_key(code, release) ELSE held
        /\ UNCHANGED <<caps_lock, input_buffer, rebooted>>

(* What the keys that are down say a key should give: letters in the case  *)
(* that shift or caps lock, but not both, asks for.                        *)
Expected(code) ==
  LET shift == down \cap Shift # {}
      plain == map_key(invariant_keymap \o (IF shift THEN shifted_keymap ELSE unshifted_keymap), code)
      letter == plain \in 65 .. 90
      char == IF down \cap Ctrl # {} /\ plain \in 64 .. 95 THEN plain - 64
              ELSE IF letter /\ ~(shift /\ ~caps_lock) /\ ~(caps_lock /\ ~shift) THEN plain + 32
              ELSE plain
  IN IF plain = NoChar THEN <<>>
     ELSE <<IF down \cap Alt # {} THEN char + 128 ELSE char>>

press(code) ==
  /\ ~rebooted /\ keyboard_interrupt_(code, FALSE)
  /\ down' = down \cup {code}
  /\ typed' = IF rebooted' \/ Len(typed) = MaxInput THEN typed ELSE typed \o Expected(code)

lift(code) ==
  /\ ~rebooted /\ code \in down /\ keyboard_interrupt_(code, TRUE)
  /\ down' = down \ {code} /\ UNCHANGED typed

(* input_getc()                                                            *)
take_key ==
  /\ ~rebooted /\ input_buffer # <<>>
  /\ input_buffer' = Tail(input_buffer) /\ typed' = Tail(typed)
  /\ UNCHANGED <<held, caps_lock, rebooted, down>>

KeyboardNext ==
  \/ \E code \in Scancode : press(code) \/ lift(code)
  \/ take_key
KeyboardSpec == KeyboardInit /\ [][KeyboardNext]_keyboardVars

(* keyboard_interrupt() knows which shift keys are down, whatever the      *)
(* order in which left and right ones go down and up, and the buffer holds *)
(* the characters of the keys pressed, in order.                           *)
KeysExact == held = down \cap shift_keys /\ input_buffer = typed
=============================================================================
