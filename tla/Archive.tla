------------------------------- MODULE Archive -------------------------------
(***************************************************************************)
(* Files in and out of the kernel: fsutil_extract() and fsutil_append() of *)
(* filesys/fsutil.c, with the archive headers of lib/ustar.c, on a scratch *)
(* device that a host prepares before the boot and reads after it.  A      *)
(* sector of the device is a record; the functions run one at a time at    *)
(* boot and are one step each.                                             *)
(***************************************************************************)
EXTENDS Integers, Sequences, FiniteSets, SequencesExt

CONSTANTS
  BLOCK_SECTOR_SIZE,
  block_size,          \* sectors of the scratch device
  FieldSize,           \* characters of an octal field
  INT_MAX, ULONG_MAX,
  NameMax,             \* longest name that fits in a header
  FileName, Prefix,    \* names of files, and what may stand before one in a path to it
  Contents,            \* sequences of bytes
  HostFiles,           \* archives of the host: sequences of <<name, contents>>
  MaxBoots             \* bound on reboots

VARIABLES
  scratch, extract_sector, append_sector,   \* the device, the two static positions
  files,                 \* the file system: a set of <<name, contents>>
  panicked, boots,
  hosted, appended       \* history: what the host put, what was appended
archiveVars == <<scratch, extract_sector, append_sector, files, panicked, boots, hosted, appended>>

Zeros == [kind |-> "zeros"]
Data(bytes) == [kind |-> "data", bytes |-> bytes]

-----------------------------------------------------------------------------
(* lib/ustar.c *)

starts(n, p) == Len(n) >= Len(p) /\ SubSeq(n, 1, Len(p)) = p

(* After the first "/".                                                    *)
after_slash(n) ==
  LET i == CHOOSE i \in DOMAIN n : n[i] = "/" /\ \A j \in 1 .. i - 1 : n[j] # "/"
  IN SubSeq(n, i + 1, Len(n))

RECURSIVE strip_prefixes(_)
strip_prefixes(n) ==
  IF starts(n, <<"/">>) \/ starts(n, <<".", "/">>) \/ starts(n, <<".", ".", "/">>)
  THEN strip_prefixes(after_slash(n)) ELSE n

strip_antisocial_prefixes(n) ==
  LET s == strip_prefixes(n) IN IF s = <<>> \/ s = <<".", ".">> THEN <<".">> ELSE s

OctalDigit == 0 .. 7
BLANK == 8        \* a space or a null byte
OTHER_CHAR == 9

(* snprintf() with as many digits as leave room for the null byte.         *)
octal_field(v) ==
  [i \in 1 .. FieldSize |-> IF i = FieldSize THEN BLANK ELSE (v \div 8 ^ (FieldSize - 1 - i)) % 8]

(* [ok, value] of parse_octal_field() from offset ofs on.                  *)
RECURSIVE parse_octal(_, _, _)
parse_octal(s, ofs, value) ==
  IF ofs = Len(s) THEN [ok |-> FALSE, value |-> value]
  ELSE LET c == s[ofs + 1]
       IN IF c \in OctalDigit
          THEN IF value > ULONG_MAX \div 8 THEN [ok |-> FALSE, value |-> value]
               ELSE parse_octal(s, ofs + 1, c + value * 8)
          ELSE [ok |-> c = BLANK /\ ofs > 0, value |-> value]
parse_octal_field(s) == parse_octal(s, 0, 0)

(* The sum of the bytes of the fields that vary, as weights; the checksum  *)
(* field counts as spaces.                                                 *)
byte_of(ch) == CASE ch = "/" -> 1 [] ch = "." -> 2 [] OTHER -> 3
calculate_chksum(h) ==
  FoldLeft(LAMBDA n, ch : n + byte_of(ch), 0, h.name) + FoldLeft(LAMBDA n, d : n + d, 0, h.size)
  + (IF h.typeflag = "regular" THEN 0 ELSE 5)

NoHeader == [kind |-> "none"]
ustar_make_header(file_name, type, size) ==
  LET name == strip_antisocial_prefixes(file_name)
      h == [kind |-> "header", name |-> name, size |-> octal_field(size), typeflag |-> type]
  IN IF Len(name) > NameMax THEN NoHeader
     ELSE h @@ [chksum |-> octal_field(calculate_chksum(h))]

(* The type is "error" for every message, "eof" at the end.                *)
parsed(type, name, size) == [type |-> type, name |-> name, size |-> size]
ustar_parse_header(h) ==
  LET sum == parse_octal_field(h.chksum) size == parse_octal_field(h.size)
  IN IF h = Zeros THEN parsed("eof", <<>>, 0)
     ELSE IF h.kind # "header" \/ ~sum.ok \/ sum.value # calculate_chksum(h) \/ Len(h.name) > NameMax
             \/ h.typeflag \notin {"regular", "directory"}
             \/ (h.typeflag = "regular" /\ (~size.ok \/ size.value > INT_MAX))
     THEN parsed("error", <<>>, 0)
     ELSE parsed(h.typeflag, strip_antisocial_prefixes(h.name),
                 IF h.typeflag = "regular" THEN size.value ELSE 0)

-----------------------------------------------------------------------------
(* fsutil.c *)

min_(a, c) == IF a < c THEN a ELSE c
sectors_for(size) == (size + BLOCK_SECTOR_SIZE - 1) \div BLOCK_SECTOR_SIZE
named(fs, name) == {f \in fs : f[1] = name}

(* Mutant: the last sector is copied whole.                                *)
whole_chunk(size) == BLOCK_SECTOR_SIZE
chunk_size(size) == min_(size, BLOCK_SECTOR_SIZE)
bytes_of(s) ==
  IF s < block_size /\ scratch[s].kind = "data" THEN scratch[s].bytes ELSE [i \in 1 .. BLOCK_SECTOR_SIZE |-> 0]
(* The first size bytes of the sectors from s on.                          *)
RECURSIVE copied(_, _)
copied(s, size) ==
  IF size <= 0 THEN <<>>
  ELSE SubSeq(bytes_of(s), 1, chunk_size(size))
       \o copied(s + 1, size - chunk_size(size))

(* The loop of fsutil_extract() from sector s on; ok is FALSE at a PANIC.  *)
RECURSIVE extract_from(_, _)
extract_from(s, fs) ==
  LET h == ustar_parse_header(scratch[s]) next == s + 1 + sectors_for(h.size)
      stop == [ok |-> FALSE, sector |-> s, files |-> fs]
  IN IF s >= block_size \/ (s < block_size /\ h.type = "error") THEN stop
     ELSE IF h.type = "eof" THEN [ok |-> TRUE, sector |-> s + 1, files |-> fs]
     ELSE IF h.type = "directory" THEN extract_from(s + 1, fs)
     ELSE IF named(fs, h.name) # {} \/ next > block_size THEN stop
     ELSE extract_from(next, fs \cup {<<h.name, copied(s + 1, h.size)>>})

(* The first two sectors are erased at the end.                            *)
fsutil_extract ==
  LET r == extract_from(extract_sector, files)
  IN /\ ~panicked /\ append_sector = 0
     /\ panicked' = ~r.ok /\ files' = r.files /\ extract_sector' = r.sector
     /\ scratch' = IF r.ok THEN [scratch EXCEPT ![0] = Zeros, ![1] = Zeros] ELSE scratch
     /\ hosted' = IF r.ok THEN <<>> ELSE hosted
     /\ UNCHANGED <<append_sector, appended, boots>>

(* Sector i of a file, filled with zeros.                                  *)
chunk(bytes, i) ==
  [k \in 1 .. BLOCK_SECTOR_SIZE |->
     LET p == (i - 1) * BLOCK_SECTOR_SIZE + k IN IF p <= Len(bytes) THEN bytes[p] ELSE 0]
chunks(bytes) == [i \in 1 .. sectors_for(Len(bytes)) |-> Data(chunk(bytes, i))]
written(dev, s, seq) == [i \in 0 .. block_size - 1 |->
                           IF i \in s .. s + Len(seq) - 1 THEN seq[i - s + 1] ELSE dev[i]]

(* Mutant: no marker.                                                      *)
no_marker(dev, s) == {dev}
(* Both writes of the end marker go to the same sector.  The second takes  *)
(* its last byte from behind the buffer, so that it is any byte.           *)
Stray == Data([i \in 1 .. BLOCK_SECTOR_SIZE |-> IF i = BLOCK_SECTOR_SIZE THEN 1 ELSE 0])
end_marker(dev, s) == {written(dev, s, <<last>>) : last \in {Zeros, Stray}}

(* A PANIC when the name, or the device, is too short leaves what was      *)
(* written so far.                                                         *)
fsutil_append(prefix, f) ==
  LET h == ustar_make_header(prefix \o f[1], "regular", Len(f[2]))
      out == <<h>> \o chunks(f[2]) end == append_sector + Len(out)
  IN /\ ~panicked /\ f \in files
     /\ \/ /\ h # NoHeader /\ end < block_size
           /\ scratch' \in end_marker(written(scratch, append_sector, out), end)
           /\ append_sector' = end /\ appended' = Append(appended, f) /\ UNCHANGED panicked
        \/ /\ h = NoHeader \/ end >= block_size
           /\ panicked' = TRUE
           /\ scratch' = IF h = NoHeader THEN scratch ELSE written(scratch, append_sector, out)
           /\ UNCHANGED <<append_sector, appended>>
     /\ UNCHANGED <<files, extract_sector, hosted, boots>>

(* A program of the kernel makes a file; fsutil_rm() removes one.          *)
make_file(f) ==
  /\ ~panicked /\ named(files, f[1]) = {}
  /\ files' = files \cup {f} /\ UNCHANGED <<scratch, extract_sector, append_sector, panicked, boots, hosted, appended>>

fsutil_rm(f) ==
  /\ ~panicked /\ f \in files
  /\ files' = files \ {f} /\ UNCHANGED <<scratch, extract_sector, append_sector, panicked, boots, hosted, appended>>

(* The host writes an archive with its own tool, which uses the names as   *)
(* they are, and two sectors of zeros.                                     *)
IsDirectory(f) == Last(f[1]) = "/"
host_header(f) ==
  LET h == [kind |-> "header", name |-> f[1], size |-> octal_field(Len(f[2])),
            typeflag |-> IF IsDirectory(f) THEN "directory" ELSE "regular"]
  IN h @@ [chksum |-> octal_field(calculate_chksum(h))]
host_sectors(fs) == FlattenSeq([i \in DOMAIN fs |-> <<host_header(fs[i])>> \o chunks(fs[i][2])])
host_archive(fs) ==
  /\ extract_sector = 0 /\ append_sector = 0 /\ ~panicked
  /\ hosted' = fs /\ scratch' = written(scratch, 0, host_sectors(fs) \o <<Zeros, Zeros>>)
  /\ UNCHANGED <<extract_sector, append_sector, files, panicked, boots, appended>>

(* The positions start at 0 again, the disks keep what they hold.          *)
reboot ==
  /\ boots < MaxBoots /\ boots' = boots + 1
  /\ extract_sector' = 0 /\ append_sector' = 0 /\ panicked' = FALSE /\ appended' = <<>>
  /\ hosted' = IF append_sector = 0 THEN hosted ELSE appended
  /\ UNCHANGED <<scratch, files>>

Junk_ == Data([i \in 1 .. BLOCK_SECTOR_SIZE |-> 1])
ArchiveInit ==
  /\ scratch = [s \in 0 .. block_size - 1 |-> Junk_] /\ extract_sector = 0 /\ append_sector = 0
  /\ files = {} /\ panicked = FALSE /\ boots = 0 /\ hosted = <<>> /\ appended = <<>>

ArchiveNext ==
  \/ \E fs \in HostFiles : host_archive(fs)
  \/ reboot
  \/ fsutil_extract
  \/ \E f \in FileName \X Contents : make_file(f)
  \/ \E f \in files : fsutil_rm(f) \/ \E prefix \in Prefix : fsutil_append(prefix, f)

ArchiveSpec == ArchiveInit /\ [][ArchiveNext]_archiveVars

-----------------------------------------------------------------------------
(* What a reader of archives finds, and where it stops.                     *)
RECURSIVE Listing(_)
Listing(s) ==
  IF s >= block_size \/ scratch[s].kind # "header" THEN [files |-> <<>>, end |-> s]
  ELSE LET size == parse_octal_field(scratch[s].size).value
           rest == Listing(s + 1 + sectors_for(size))
       IN [rest EXCEPT !.files = <<<<scratch[s].name, copied(s + 1, size)>>>> \o @]

Stripped(fs) ==
  LET regular == SelectSeq(fs, LAMBDA f : ~IsDirectory(f))
  IN [i \in DOMAIN regular |-> <<strip_antisocial_prefixes(regular[i][1]), regular[i][2]>>]
Antisocial(n) == n \in {<<>>, <<".", ".">>} \/ starts(n, <<"/">>) \/ starts(n, <<".", ".", "/">>)

WellFormed(s, n) == s[n + 1] = BLANK /\ \A i \in 1 .. n : s[i] \in OctalDigit
OctalValue(s, n) == FoldLeft(LAMBDA v, d : 8 * v + d, 0, SubSeq(s, 1, n))
NamesStripped ==
  \A n \in SeqOf({"/", ".", "a"}, 5) :
    LET s == strip_antisocial_prefixes(n) IN
    ~Antisocial(s) /\ (s = <<".">> \/ IsSuffix(s, n))
FieldsParsed ==
  \A s \in [1 .. FieldSize -> OctalDigit \cup {BLANK, OTHER_CHAR}] :
    LET r == parse_octal_field(s)
    IN r.ok = (\E n \in 1 .. FieldSize - 1 :
                 WellFormed(s, n) /\ OctalValue(s, n) <= ULONG_MAX /\ OctalValue(s, n) = r.value)

(* What fsutil_append() was given since the boot is what the scratch       *)
(* device lists, in order, with the same bytes and under the plain names;  *)
(* nothing of an older archive shows behind it.  A stripped name never     *)
(* leaves the directory it is unpacked in.  parse_octal_field() accepts    *)
(* exactly the well-formed fields that do not overflow.                    *)
ArchiveExact ==
  /\ append_sector > 0 /\ ~panicked =>
       Listing(0) = [files |-> appended, end |-> append_sector]
  /\ files = {} /\ scratch[0] = Junk_ => FieldsParsed /\ NamesStripped

(* The first fsutil_extract() after a boot adds the archive's files, with  *)
(* their bytes, to the file system, whether the host or an earlier         *)
(* fsutil_append() wrote it.  It panics only if a name is taken or the     *)
(* archive does not end in zeros, and once it has succeeded the next boot  *)
(* extracts nothing.                                                       *)
ExtractsAll ==
  [][fsutil_extract /\ extract_sector = 0 =>
       LET new == Stripped(hosted) IN
       /\ ~panicked' => /\ files' = files \cup {new[i] : i \in DOMAIN new}
                        /\ Listing(0)'.files = <<>>
       /\ panicked' => \/ \E i \in DOMAIN new : named(files, new[i][1]) # {}
                       \/ \E i, j \in DOMAIN new : i # j /\ new[i][1] = new[j][1]
                       \/ LET end == Listing(0).end IN end >= block_size \/ scratch[end] # Zeros
    ]_archiveVars
=============================================================================
