------------------------------ MODULE MCLibrary ------------------------------
(* The algorithms that run by themselves: containers, strings, numbers and  *)
(* formats, partitions, archives, the arguments of a new program, keyboard, *)
(* display and timer.                                                       *)
EXTENDS ListAlgorithms, Hash, Bitmap, Strings, Numbers, Printf, Archive, Arguments,
        Partitions, Keyboard, Vga, Timer

MCElem == {<<"elem", i>> : i \in 1 .. 5}
MCKey == [e \in MCElem |-> <<1, 2, 1, 3, 2>>[e[2]]]
MCHashKey == [a1 |-> 1, a2 |-> 1, b |-> 2, c |-> 3, d |-> 4]
MCHash == [a1 |-> 5, a2 |-> 5, b |-> 1, c |-> 2, d |-> 7]
MCHalvedW == <<2, 1>>
MCFlags == {fs \in SUBSET {"-", "+", " ", "#", "0", "'"} : Cardinality(fs) <= 3}
MCNumbers == {-5, 2, 9}
MCValue == {0, 7, 1234, -77}
MCText == {<<>>, <<"x", "y", "z">>}
MCFileName == {<<"a">>, <<"a", "a", "a", "a", "a", "a">>}
MCPrefix == {<<".", "/">>}
MCContents == {<<>>, <<1, 2, 1>>}
MCHost == {<< <<<<"a", "/">>, <<>>>>, <<<<"/", ".", ".", "/", "a">>, <<1, 2>>>>, <<<<"a", ".">>, <<2>>>> >>}
MCTableEntry == [type : {0, 5, 33, 34}, offset : {0, 2, 15}, size : {1, 4, 15}]
MCRoleName == {NoName, 1, 2}
MCDuration == {<<3, 10>>, <<11, 10>>, <<50, 100>>}

VARIABLE part
containers == <<listVars, hashVars, bitmapVars>>
texts == <<stringVars, numberVars, printfVars>>
loaders == <<archiveVars, argumentVars, partitionVars>>
hardware == <<keyboardVars, vgaVars, timerVars>>
libVars == <<part, containers, texts, loaders, hardware>>

LibInit ==
  /\ ListsInit /\ HashInit /\ BitmapInit /\ StringsInit /\ NumbersInit /\ PrintfInit
  /\ ArchiveInit /\ ArgumentsInit /\ PartitionsInit /\ KeyboardInit /\ VgaInit
  /\ TimerInit
  /\ part \in {"list", "hash", "bitmap", "string", "number", "printf", "archive", "arguments",
             "partitions", "keyboard", "screen", "timer"}

LibNext ==
  /\ UNCHANGED part
  /\ \/ part = "list" /\ ListsNext /\ UNCHANGED <<hashVars, bitmapVars, texts, loaders, hardware>>
     \/ part = "hash" /\ HashNext /\ UNCHANGED <<listVars, bitmapVars, texts, loaders, hardware>>
     \/ part = "bitmap" /\ BitmapNext /\ UNCHANGED <<listVars, hashVars, texts, loaders, hardware>>
     \/ part = "string" /\ StringsNext /\ UNCHANGED <<containers, numberVars, printfVars, loaders, hardware>>
     \/ part = "number" /\ NumbersNext /\ UNCHANGED <<containers, stringVars, printfVars, loaders, hardware>>
     \/ part = "printf" /\ PrintfNext /\ UNCHANGED <<containers, stringVars, numberVars, loaders, hardware>>
     \/ part = "archive" /\ ArchiveNext /\ UNCHANGED <<containers, texts, argumentVars, partitionVars, hardware>>
     \/ part = "arguments" /\ ArgumentsNext /\ UNCHANGED <<containers, texts, archiveVars, partitionVars, hardware>>
     \/ part = "partitions" /\ PartitionsNext /\ UNCHANGED <<containers, texts, archiveVars, argumentVars, hardware>>
     \/ part = "keyboard" /\ KeyboardNext /\ UNCHANGED <<containers, texts, loaders, vgaVars, timerVars>>
     \/ part = "screen" /\ VgaNext /\ UNCHANGED <<containers, texts, loaders, keyboardVars, timerVars>>
     \/ part = "timer" /\ TimerNext /\ UNCHANGED <<containers, texts, loaders, keyboardVars, vgaVars>>

LibSpec == LibInit /\ [][LibNext]_libVars

(* Lists, hash tables and bitmaps (lib/kernel) always have the contents    *)
(* that the calls made so far should have given them.                      *)
ContainersExact ==
  /\ part = "list" => ListsExact
  /\ part = "hash" => HashExact
  /\ part = "bitmap" => BitmapExact

(* The functions on strings, numbers, arrays and formats (lib) compute     *)
(* what their reference definitions say, also where blocks overlap,        *)
(* numbers are at the end of their range and buffers are too small.        *)
TextExact ==
  /\ part = "string" => StringsExact
  /\ part = "number" => NumbersExact
  /\ part = "printf" => PrintfExact

(* What a boot reads: registered partitions lie inside their disk, an      *)
(* appended archive gives its files back, and a new program finds its      *)
(* arguments on its stack.                                                 *)
BootExact ==
  /\ part = "partitions" => PartitionsExact
  /\ part = "archive" => ArchiveExact
  /\ part = "arguments" => ArgumentsExact

(* keyboard_interrupt() and vga_putc(): what is typed arrives as the keys  *)
(* held say, and what is written stays on the screen until it scrolls out. *)
TerminalExact ==
  /\ part = "keyboard" => KeysExact
  /\ part = "screen" => ScreenExact
=============================================================================
