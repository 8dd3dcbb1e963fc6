------------------------------ MODULE Arguments ------------------------------
(***************************************************************************)
(* The end of load() in userprog/process.c: the words of a command line    *)
(* are pushed on a new program's stack, then the pointers to them, argv,   *)
(* argc and a return address.  A number or pointer takes SizeofPointer     *)
(* cells and is kept in the first of them.                                 *)
(***************************************************************************)
EXTENDS Integers, Sequences, SequencesExt

CONSTANTS
  StackSize,       \* cells of the stack's page, 0 .. StackSize - 1
  SizeofPointer,
  Letter,          \* characters: numbers other than 0, which ends a string
  MaxLetters, MaxWords

VARIABLES
  words,           \* the command line
  token, argc,     \* words taken by strtok_r(), words pushed
  stack, stack_pointer, args_pointer,
  loading          \* "open", "words", "pointers", "done", or "fault" below the page
argumentVars == <<words, token, argc, stack, stack_pointer, args_pointer, loading>>

Words == SeqOf(Letter, MaxLetters) \ {<<>>}

(* setup_stack() has mapped a page of zeros.                               *)
ArgumentsInit ==
  /\ words = <<>> /\ token = 1 /\ argc = 0
  /\ stack = [a \in 0 .. StackSize - 1 |-> 0] /\ stack_pointer = StackSize /\ args_pointer = 0
  /\ loading = "open"

(* The executable has been opened, so there is a first word.               *)
load(line) ==
  /\ loading = "open" /\ words' = line /\ loading' = "words"
  /\ UNCHANGED <<token, argc, stack, stack_pointer, args_pointer>>

memcpy_to(a, s) == [i \in DOMAIN stack |-> IF i \in a .. a + Len(s) - 1 THEN s[i - a + 1] ELSE stack[i]]

push_word ==
  /\ loading = "words" /\ token <= Len(words)
  /\ stack_pointer' = stack_pointer - (Len(words[token]) + 1)
  /\ IF stack_pointer' < 0 THEN loading' = "fault" /\ UNCHANGED <<stack, token, argc>>
     ELSE /\ stack' = memcpy_to(stack_pointer', words[token])
          /\ token' = token + 1 /\ argc' = argc + 1 /\ UNCHANGED loading
  /\ UNCHANGED <<words, args_pointer>>

(* The null pointer behind the last argument.                              *)
push_null ==
  /\ loading = "words" /\ token > Len(words)
  /\ args_pointer' = stack_pointer /\ stack_pointer' = stack_pointer - SizeofPointer
  /\ token' = 0
  /\ IF stack_pointer' < 0 THEN loading' = "fault" /\ UNCHANGED stack
     ELSE loading' = "pointers" /\ stack' = memcpy_to(stack_pointer', <<0>>)
  /\ UNCHANGED <<words, argc>>

strlen_at(a) ==
  LET end == CHOOSE e \in a .. StackSize - 1 : stack[e] = 0 /\ \A k \in a .. e - 1 : stack[k] # 0
  IN end - a

(* Mutant: the end of the string is not skipped.                           *)
next_end(a) == a + strlen_at(a)
next_string(a) == a + strlen_at(a) + 1

(* The strings are walked upwards, from the last word to the first, while  *)
(* the pointers go down.                                                   *)
push_pointer ==
  /\ loading = "pointers" /\ token < argc
  /\ stack_pointer' = stack_pointer - SizeofPointer
  /\ IF stack_pointer' < 0 THEN loading' = "fault" /\ UNCHANGED <<stack, token, args_pointer>>
     ELSE /\ stack' = memcpy_to(stack_pointer', <<args_pointer>>)
          /\ args_pointer' = next_string(args_pointer)
          /\ token' = token + 1 /\ UNCHANGED loading
  /\ UNCHANGED <<words, argc>>

push_rest ==
  LET sp == stack_pointer - 3 * SizeofPointer
      cell(i) == CASE i = 0 -> 0 [] i = 1 -> argc [] OTHER -> stack_pointer
      rest == [k \in 1 .. 3 * SizeofPointer |->
                 IF (k - 1) % SizeofPointer = 0 THEN cell((k - 1) \div SizeofPointer) ELSE 0]
  IN /\ loading = "pointers" /\ token = argc
     /\ stack_pointer' = sp
     /\ IF sp < 0 THEN loading' = "fault" /\ UNCHANGED stack
        ELSE loading' = "done" /\ stack' = memcpy_to(sp, rest)
     /\ UNCHANGED <<words, token, argc, args_pointer>>

ArgumentsNext ==
  \/ \E line \in SeqOf(Words, MaxWords) \ {<<>>} : load(line)
  \/ push_word \/ push_null \/ push_pointer \/ push_rest
ArgumentsSpec == ArgumentsInit /\ [][ArgumentsNext]_argumentVars

-----------------------------------------------------------------------------
(* The program's main() finds its arguments: argc counts the words, argv   *)
(* has a pointer to each of them, in order, and a null pointer behind the  *)
(* last, whatever the lengths of the words; and a command line whose       *)
(* strings and pointers fit in the page does not run over its end.         *)
ArgumentsExact ==
  LET argv == stack[stack_pointer + 2 * SizeofPointer]
      text == FoldLeft(LAMBDA n, w : n + Len(w) + 1, 0, words)
  IN /\ loading = "done" =>
          /\ stack[stack_pointer] = 0 /\ stack[stack_pointer + SizeofPointer] = Len(words)
          /\ stack[argv + Len(words) * SizeofPointer] = 0
          /\ \A i \in 1 .. Len(words) :
               LET p == stack[argv + (i - 1) * SizeofPointer]
               IN SubSeq([k \in 1 .. StackSize - p |-> stack[p + k - 1]], 1, Len(words[i]) + 1)
                    = Append(words[i], 0)
     /\ loading = "fault" => text + (Len(words) + 4) * SizeofPointer > StackSize
=============================================================================
