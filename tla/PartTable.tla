----------------------------- MODULE PartTable -----------------------------
(***************************************************************************)
(* partutil.c's MS-DOS partition table reader (part_table_load_from_disk,  *)
(* part_table_parse_msdos, part_table_parse_msdos_extended), its lookup    *)
(* part_table_find with the entry getters, and the block of probe-volume   *)
(* that classifies a partition from the table.                            *)
(*                                                                         *)
(* Offsets are counted in 512-byte sectors: every offset the parser forms *)
(* is 0x200 times a le32 field, and the MSDOS_PARTTABLE_OFFSET added to   *)
(* an EBR entry's pe->offset is subtracted again by                        *)
(* part_table_entry_get_offset, so an entry keeps the sector of its table *)
(* (at) instead.  The disk is read lazily: a sector gets its contents the *)
(* first time the parser reads it and keeps them, so the states cover     *)
(* every disk image the choice sets allow.                                *)
(***************************************************************************)
EXTENDS Naturals, Sequences, FiniteSetsExt, Functions

CONSTANTS
  DiskSectors,  \* size of the disk (BLKGETSIZE64) in sectors
  MbrEntries,   \* the first two MBR entries: [flag, type, start, size]
  EbrData,      \* an EBR's first entry (the logical partition)
  EbrLink,      \* an EBR's second entry (the link to the next EBR)
  ProbeStarts,  \* partition_start values probe-volume is given, in sectors
  MaxEbrReads,  \* EBRs one walk reads before the model stops following it
  GptHeaders,   \* GPT headers: [magic, entry_lba, num_entries, size_of_entry]
  GptEntries,   \* GPT entries: [type (the GUID as get_le_guid prints it), start, end]
  NoTable,      \* a NULL PartitionTable *
  Foreign,      \* what the Apple parser returns, not modelled
  NotFound      \* *out_entry = -1

ExtendedTypes == {5, 15, 133}   \* 0x05 MS-DOS, 0x0f Win95, 0x85 Linux
GptProtective == 238            \* 0xee
RaidType == 253                 \* 0xfd, Linux RAID autodetect
LvmType == 142                  \* 0x8e, Linux LVM
GptEmpty == "00000000-0000-0000-0000-000000000000"
GptRaid == "A19D880F-05FC-4D3B-A006-743F0F84911E"
GptLvm == "E6D6D379-F507-44C2-A23C-238F2A3DF928"
EntryBytes == 128               \* read (fd, &gpt_part_entry, 128)
EmptyEntry == [flag |-> 0, type |-> 0, start |-> 0, size |-> 0]
NoMagic == [magic |-> FALSE, part |-> <<>>]
Unread == [unread |-> TRUE]  \* a sector not read yet

Sectors == 0 .. DiskSectors - 1
(* The disks modelled hold the MBR and the sector after it, where the GPT *)
(* header lies; reads of a shorter disk fail before any table is made.    *)
ASSUME DiskSectors >= 2
DiskBytes == DiskSectors * 512
(* Byte address of GPT entry k (from 0) under header h.                    *)
GptSlot(h, k) == h.entry_lba * 512 + k * h.size_of_entry
GptSlots == UNION {{GptSlot(h, k) : k \in 0 .. h.num_entries - 1} : h \in GptHeaders}
MbrChoices ==
  {NoMagic} \cup
  {[magic |-> TRUE, part |-> <<e1, e2, EmptyEntry, EmptyEntry>>] :
     e1 \in MbrEntries, e2 \in MbrEntries}
EbrChoices ==
  {NoMagic} \cup {[magic |-> TRUE, part |-> <<d, l>>] : d \in EbrData, l \in EbrLink}

VARIABLES
  disk,    \* sector -> contents, for the sectors read so far
  gdisk,   \* byte address -> GPT entry, for the entries read so far
  pc,      \* where the prober is
  p,       \* the table: NoTable, Foreign or a sequence of entries
  pscheme, \* p's scheme, "mbr" or "gpt"
  n,       \* the MBR or GPT entry being looked at, from 1
  e_table, \* the extended table part_table_parse_msdos_extended builds
  next,    \* its next EBR sector, 0 for none
  reads,   \* EBRs the current walk has read
  probe,   \* the partition_start probe-volume looked up
  found,   \* what part_table_find returned
  fsusage  \* volume.fsusage as the partition block leaves it

vars == <<disk, gdisk, pc, p, pscheme, n, e_table, next, reads, probe, found, fsusage>>

Entry == [flag : Nat, type : Nat, start : Nat, size : Nat]
GptEntry == [type : STRING, start : Nat, end : Nat]
TableEntry == [e : Entry \cup GptEntry, at : Nat, nested : Seq([e : Entry, at : Nat, nested : {NoTable}]) \cup {NoTable}]

TypeOK ==
  /\ disk \in [Sectors -> MbrChoices \cup EbrChoices \cup GptHeaders \cup {Unread}]
  /\ gdisk \in [GptSlots -> GptEntries \cup {Unread}]
  /\ pc \in {"load", "entry", "ebr", "gpt", "gpt_entry", "probe", "done", "hung"}
  /\ pscheme \in {"mbr", "gpt"}
  /\ p \in {t \in Seq(TableEntry) : Len(t) <= 4} \cup {NoTable, Foreign}
  /\ n \in 1 .. 5
  /\ e_table \in Seq(TableEntry) \cup {NoTable}
  /\ next \in Nat /\ reads \in 0 .. MaxEbrReads
  /\ probe \in ProbeStarts \cup {0}
  /\ found \in [scheme : {"mbr", "embr", "gpt"}, entry : TableEntry \cup {NotFound}] \cup {NotFound}
  /\ fsusage \in {"unset", "raid", "partitiontable"}

(* read() of one sector: what the sector holds, or the choice of it the  *)
(* first time it is read.                                                  *)
ReadSector(s, choices) ==
  IF disk[s] = Unread THEN choices ELSE {disk[s]}

Init ==
  /\ disk = [s \in Sectors |-> Unread]
  /\ gdisk = [a \in GptSlots |-> Unread]
  /\ pc = "load" /\ p = NoTable /\ pscheme = "mbr" /\ n = 1
  /\ e_table = NoTable /\ next = 0 /\ reads = 0
  /\ probe = 0 /\ found = NotFound /\ fsusage = "unset"

(* The header checks of part_table_parse_msdos: the magic, then for each  *)
(* entry in order a flag other than 0x00 or 0x80 (invalid) or a type      *)
(* 0xee (protective MBR: found_gpt).  The first entry that fails decides. *)
MsdosVerdict(m) ==
  LET bad == {i \in 1 .. 4 : m.part[i].flag \notin {0, 128}
                             \/ m.part[i].type = GptProtective}
  IN  IF ~m.magic THEN "nomagic"
      ELSE IF bad = {} THEN "msdos"
      ELSE IF m.part[Min(bad)].flag \notin {0, 128} THEN "invalid"
      ELSE "gpt"

(* part_table_load_from_disk: the MS-DOS parser first; when it returns    *)
(* NULL, the GPT parser if it saw a protective MBR, then the Apple parser *)
(* (whose outcome is outside this model).                                  *)
LoadFromDisk ==
  /\ pc = "load"
  /\ \E m \in ReadSector(0, MbrChoices) :
       /\ disk' = [disk EXCEPT ![0] = m]
       /\ IF MsdosVerdict(m) = "msdos"
            THEN p' = << >> /\ pc' = "entry"
            ELSE IF MsdosVerdict(m) = "gpt"
            THEN p' = p /\ pc' = "gpt"
            ELSE p' = Foreign /\ pc' = "done"
  /\ UNCHANGED <<gdisk, pscheme, n, e_table, next, reads, probe, found, fsusage>>

Mbr == disk[0]

(* Mutant: the loop counter is not advanced after a plain entry.          *)
MsdosEntryNoAdvance ==
  /\ pc = "entry" /\ n <= 4
  /\ LET pe == Mbr.part[n] IN
       IF pe.type \in ExtendedTypes
         THEN /\ pc' = "ebr" /\ next' = pe.start /\ e_table' = NoTable /\ reads' = 0
              /\ UNCHANGED <<p, n>>
         ELSE /\ p' = Append(p, [e |-> pe, at |-> 0, nested |-> NoTable])
              /\ UNCHANGED <<n, pc, next, e_table, reads>>
  /\ UNCHANGED <<disk, gdisk, pscheme, probe, found, fsusage>>

(* One pass of the loop of part_table_parse_msdos over the four entries:  *)
(* an entry of an extended type starts part_table_parse_msdos_extended at *)
(* its start (while (next != 0) with next = offset); any other entry,     *)
(* empty ones included, is appended.                                       *)
MsdosEntry ==
  /\ pc = "entry" /\ n <= 4
  /\ LET pe == Mbr.part[n] IN
       IF pe.type \in ExtendedTypes
         THEN /\ pc' = "ebr" /\ next' = pe.start /\ e_table' = NoTable /\ reads' = 0
              /\ UNCHANGED <<p, n>>
         ELSE /\ p' = Append(p, [e |-> pe, at |-> 0, nested |-> NoTable])
              /\ n' = n + 1
              /\ UNCHANGED <<pc, next, e_table, reads>>
  /\ UNCHANGED <<disk, gdisk, pscheme, probe, found, fsusage>>

(* The four entries are done: part_table_load_from_disk returns p and      *)
(* probe-volume goes on to look it up.                                     *)
MsdosDone ==
  /\ pc = "entry" /\ n = 5
  /\ pc' = "probe"
  /\ UNCHANGED <<disk, gdisk, pscheme, p, n, e_table, next, reads, probe, found, fsusage>>

(* Mutants of part_table_parse_msdos_extended: the link taken relative to *)
(* the current EBR; next reset only after a good read; the table created  *)
(* before the magic is checked.                                            *)
ParseExtendedLinkFromEbr(offset) ==
  LET readfrom == next IN
  /\ IF readfrom \notin Sectors
       THEN disk' = disk /\ next' = 0 /\ e_table' = e_table
       ELSE \E ebr \in ReadSector(readfrom, EbrChoices) :
              /\ disk' = [disk EXCEPT ![readfrom] = ebr]
              /\ IF ~ebr.magic
                   THEN next' = 0 /\ e_table' = e_table
                   ELSE LET tbl  == IF e_table = NoTable THEN << >> ELSE e_table
                            data == ebr.part[1]
                            link == ebr.part[2]
                        IN /\ e_table' = IF data.size = 0 THEN tbl
                                         ELSE Append(tbl, [e |-> data, at |-> readfrom,
                                                           nested |-> NoTable])
                           /\ next' = IF link.size # 0 /\ link.start # 0
                                        THEN readfrom + link.start ELSE 0

ParseExtendedNoReset(offset) ==
  LET readfrom == next IN
  /\ IF readfrom \notin Sectors
       THEN disk' = disk /\ next' = next /\ e_table' = e_table
       ELSE \E ebr \in ReadSector(readfrom, EbrChoices) :
              /\ disk' = [disk EXCEPT ![readfrom] = ebr]
              /\ IF ~ebr.magic
                   THEN next' = next /\ e_table' = e_table
                   ELSE LET tbl  == IF e_table = NoTable THEN << >> ELSE e_table
                            data == ebr.part[1]
                            link == ebr.part[2]
                        IN /\ e_table' = IF data.size = 0 THEN tbl
                                         ELSE Append(tbl, [e |-> data, at |-> readfrom,
                                                           nested |-> NoTable])
                           /\ next' = IF link.size # 0 /\ link.start # 0
                                        THEN offset + link.start ELSE 0

(* One iteration of the while loop of part_table_parse_msdos_extended at  *)
(* readfrom = next, with next reset to 0 first.  A failed lseek or read   *)
(* (past the end of the disk) or a missing magic leaves the loop with the *)
(* table built so far.  Otherwise the table is created on the first good  *)
(* EBR, a first entry of non-zero size is appended, and a second entry of *)
(* non-zero size and start links to the next EBR, relative to the start   *)
(* of the extended partition (offset), not to this EBR.                    *)
ParseExtended(offset) ==
  LET readfrom == next IN
  /\ IF readfrom \notin Sectors
       THEN disk' = disk /\ next' = 0 /\ e_table' = e_table
       ELSE \E ebr \in ReadSector(readfrom, EbrChoices) :
              /\ disk' = [disk EXCEPT ![readfrom] = ebr]
              /\ IF ~ebr.magic
                   THEN next' = 0 /\ e_table' = e_table
                   ELSE LET tbl  == IF e_table = NoTable THEN << >> ELSE e_table
                            data == ebr.part[1]
                            link == ebr.part[2]
                        IN /\ e_table' = IF data.size = 0 THEN tbl
                                         ELSE Append(tbl, [e |-> data, at |-> readfrom,
                                                           nested |-> NoTable])
                           /\ next' = IF link.size # 0 /\ link.start # 0
                                        THEN offset + link.start ELSE 0

(* A walk step of the extended partition the current MBR entry names.     *)
EbrStep ==
  /\ pc = "ebr" /\ next # 0 /\ reads < MaxEbrReads
  /\ ParseExtended(Mbr.part[n].start)
  /\ reads' = reads + 1
  /\ UNCHANGED <<gdisk, pscheme, pc, p, n, probe, found, fsusage>>

(* The walk has read MaxEbrReads EBRs and still has a next one: the loop  *)
(* has no other exit, and the model stops following it.                   *)
EbrHang ==
  /\ pc = "ebr" /\ next # 0 /\ reads = MaxEbrReads
  /\ pc' = "hung"
  /\ UNCHANGED <<disk, gdisk, pscheme, p, n, e_table, next, reads, probe, found, fsusage>>

(* The walk has ended: part_table_parse_msdos appends the extended entry  *)
(* with its nested table only when the walk returned a table, so an       *)
(* extended partition whose first EBR cannot be read is left out.         *)
EbrEnd ==
  /\ pc = "ebr" /\ next = 0
  /\ p' = IF e_table = NoTable THEN p
          ELSE Append(p, [e |-> Mbr.part[n], at |-> 0, nested |-> e_table])
  /\ n' = n + 1 /\ pc' = "entry"
  /\ UNCHANGED <<disk, gdisk, pscheme, e_table, next, reads, probe, found, fsusage>>

(* part_table_parse_gpt up to its entry loop: the signature "EFI PART"   *)
(* and the header fields at offset + 512; the table is created only after *)
(* every header read succeeded.  A NULL result sends                      *)
(* part_table_load_from_disk on to the Apple parser.                       *)
GptHeaderRead ==
  /\ pc = "gpt"
  /\ \E h \in ReadSector(1, GptHeaders) :
       /\ disk' = [disk EXCEPT ![1] = h]
       /\ IF h.magic
            THEN p' = << >> /\ pscheme' = "gpt" /\ pc' = "gpt_entry"
            ELSE p' = Foreign /\ pc' = "done" /\ UNCHANGED pscheme
  /\ n' = 1
  /\ UNCHANGED <<gdisk, e_table, next, reads, probe, found, fsusage>>

GptHeader == disk[1]

(* One pass of the entry loop of part_table_parse_gpt: read 128 bytes at  *)
(* partition_entry_lba * 512 + n * size_of_entry; a failed read leaves    *)
(* with the entries appended so far; an entry whose type GUID is all      *)
(* zeroes is skipped.                                                      *)
GptEntryStep ==
  /\ pc = "gpt_entry" /\ n <= GptHeader.num_entries
  /\ LET a == GptSlot(GptHeader, n - 1) IN
       IF a + EntryBytes > DiskBytes
         THEN pc' = "probe" /\ UNCHANGED <<gdisk, p, n>>
         ELSE \E ge \in IF gdisk[a] = Unread THEN GptEntries ELSE {gdisk[a]} :
                /\ gdisk' = [gdisk EXCEPT ![a] = ge]
                /\ p' = IF ge.type = GptEmpty THEN p
                        ELSE Append(p, [e |-> ge, at |-> a, nested |-> NoTable])
                /\ n' = n + 1
                /\ UNCHANGED pc
  /\ UNCHANGED <<disk, pscheme, e_table, next, reads, probe, found, fsusage>>

(* The entry loop has run num_entries times.                               *)
GptDone ==
  /\ pc = "gpt_entry" /\ n > GptHeader.num_entries
  /\ pc' = "probe"
  /\ UNCHANGED <<disk, gdisk, pscheme, p, n, e_table, next, reads, probe, found, fsusage>>

(* part_table_entry_get_offset: an MBR or GPT entry's start; an EBR       *)
(* entry's start counts from its EBR.                                      *)
EntryOffset(scheme, x) ==
  IF scheme = "embr" THEN x.e.start + x.at ELSE x.e.start

(* part_table_entry_get_size: ending_lba - starting_lba + 1 for GPT.      *)
EntrySize(scheme, x) ==
  IF scheme = "gpt" THEN x.e.end + 1 - x.e.start ELSE x.e.size

(* Mutant: a GPT entry's ending_lba taken as exclusive.                    *)
EntryLimitEndExclusive(scheme, x) ==
  IF scheme = "gpt" THEN x.e.end ELSE EntryOffset(scheme, x) + EntrySize(scheme, x)

(* pe_offset + pe_size in part_table_find.  For GPT the guint64 sum is    *)
(* 0x200 * (ending_lba + 1) whether or not ending_lba < starting_lba,     *)
(* since the size then wraps by the same 2^64 (every lba is far below     *)
(* 2^55): an entry with its end before its start holds no offset.         *)
EntryLimit(scheme, x) ==
  IF scheme = "gpt" THEN x.e.end + 1 ELSE EntryOffset(scheme, x) + EntrySize(scheme, x)

(* Mutant: part_table_find descends into the nested table also when the  *)
(* offset is the extended entry's own start.                               *)
RECURSIVE FindAtExtendedStart(_, _, _)
FindAtExtendedStart(t, scheme, offset) ==
  LET hits == {i \in DOMAIN t : /\ offset >= EntryOffset(scheme, t[i])
                                /\ offset < EntryLimit(scheme, t[i])}
      i == Min(hits)
  IN  IF hits = {} THEN [scheme |-> scheme, entry |-> NotFound]
      ELSE IF t[i].nested # NoTable /\ offset >= EntryOffset(scheme, t[i])
        THEN FindAtExtendedStart(t[i].nested, "embr", offset)
        ELSE [scheme |-> scheme, entry |-> t[i]]

(* part_table_find: the first entry whose range holds offset; into an     *)
(* extended entry's nested table unless offset is the extended entry's    *)
(* own start.                                                              *)
RECURSIVE Find(_, _, _)
Find(t, scheme, offset) ==
  LET hits == {i \in DOMAIN t : /\ offset >= EntryOffset(scheme, t[i])
                                /\ offset < EntryLimit(scheme, t[i])}
      i == Min(hits)
  IN  IF hits = {} THEN [scheme |-> scheme, entry |-> NotFound]
      ELSE IF t[i].nested # NoTable /\ offset > EntryOffset(scheme, t[i])
        THEN Find(t[i].nested, "embr", offset)
        ELSE [scheme |-> scheme, entry |-> t[i]]

(* part_table_entry_get_type of an MBR or EBR entry: g_strdup_printf of   *)
(* "0x%02x", as characters.                                                *)
HexDigit(d) == <<"0","1","2","3","4","5","6","7","8","9","a","b","c","d","e","f">>[d + 1]
FormatType(t) == <<"0", "x", HexDigit(t \div 16), HexDigit(t % 16)>>

(* atoi: the value of the leading decimal digits.                          *)
DecValue == [c \in {"0","1","2","3","4","5","6","7","8","9"} |->
               CHOOSE v \in 0 .. 9 : HexDigit(v) = c]
RECURSIVE AtoiFrom(_, _)
AtoiFrom(str, acc) ==
  IF str = << >> \/ Head(str) \notin DOMAIN DecValue THEN acc
  ELSE AtoiFrom(Tail(str), 10 * acc + DecValue[Head(str)])
Atoi(str) == AtoiFrom(str, 0)

(* The RAID/LVM test of probe-volume: atoi of the type string for an      *)
(* "mbr" or "embr" entry, strcmp with the two GUIDs for a "gpt" one.      *)
MarksRaid(sch, t) ==
  IF sch = "gpt" THEN t \in {GptRaid, GptLvm}
  ELSE LET type == FormatType(t) IN RaidType = Atoi(type) \/ LvmType = Atoi(type)

(* probe-volume with partition_start > 0 and a table: part_table_find,    *)
(* then volume.fsusage "raid" for a RAID or LVM type and "partitiontable" *)
(* for an entry with a nested table, in that order.                        *)
Probe ==
  /\ pc = "probe"
  /\ \E off \in ProbeStarts :
       LET r == Find(p, pscheme, off) IN
       /\ probe' = off /\ found' = r
       /\ fsusage' = IF r.entry = NotFound THEN "unset"
                     ELSE IF r.entry.nested # NoTable THEN "partitiontable"
                     ELSE IF MarksRaid(r.scheme, r.entry.e.type) THEN "raid"
                     ELSE "unset"
  /\ pc' = "done"
  /\ UNCHANGED <<disk, gdisk, pscheme, p, n, e_table, next, reads>>

Next ==
  \/ LoadFromDisk \/ MsdosEntry \/ MsdosDone
  \/ EbrStep \/ EbrHang \/ EbrEnd
  \/ GptHeaderRead \/ GptEntryStep \/ GptDone \/ Probe

Spec == Init /\ [][Next]_vars

-----------------------------------------------------------------------------
(***************************************************************************)
(* The layout the MS-DOS format gives a disk, defined from its sectors     *)
(* without the parser's loop.  An extended partition at sector ext holds a *)
(* chain of EBRs starting at ext; each EBR's link counts from ext, and the *)
(* chain ends at a link of size or start 0, at a sector past the end of    *)
(* the disk, or at a sector without the magic.                             *)
(***************************************************************************)
RECURSIVE ChainFrom(_, _, _, _)
ChainFrom(d, ext, s, k) ==
  IF k = 0 \/ s = 0 \/ s \notin Sectors \/ d[s] = Unread \/ ~d[s].magic THEN << >>
  ELSE LET link == d[s].part[2] IN
       <<s>> \o ChainFrom(d, ext, IF link.size # 0 /\ link.start # 0
                                    THEN ext + link.start ELSE 0, k - 1)

(* The chain, long enough that a chain visiting a sector twice shows it.   *)
Chain(d, ext) == ChainFrom(d, ext, ext, DiskSectors + 1)
ChainLoops(d, ext) == ~IsInjective(Chain(d, ext))

(* The logical partitions of the extended partition at ext, in order.      *)
Logicals(d, ext) ==
  LET c == SelectSeq(Chain(d, ext), LAMBDA s : d[s].part[1].size # 0)
  IN  [i \in DOMAIN c |-> [e |-> d[c[i]].part[1], at |-> c[i], nested |-> NoTable]]

IsExtended(pe) == pe.type \in ExtendedTypes

(* The table the format describes: the four MBR entries in order, each    *)
(* extended one with its logical partitions.                               *)
RefTable(d) ==
  [i \in 1 .. 4 |-> [e |-> d[0].part[i], at |-> 0,
                     nested |-> IF IsExtended(d[0].part[i])
                                  THEN Logicals(d, d[0].part[i].start) ELSE NoTable]]

(* Every extended partition's chain starts with a readable EBR and ends.   *)
ChainsValid(d) ==
  \A i \in 1 .. 4 :
    IsExtended(d[0].part[i]) =>
      LET c == Chain(d, d[0].part[i].start) IN c # << >> /\ IsInjective(c)

(* The partitions of the layout, with absolute sector ranges.              *)
Primaries(d) == {d[0].part[i] : i \in 1 .. 4}
LogicalsOf(d, pe) ==
  {[flag |-> x.e.flag, type |-> x.e.type, start |-> x.e.start + x.at, size |-> x.e.size] :
     x \in Range(Logicals(d, pe.start))}
Partitions(d) ==
  {pe \in Primaries(d) : pe.size > 0} \cup
  UNION {LogicalsOf(d, pe) : pe \in {q \in Primaries(d) : IsExtended(q)}}

Disjoint(a, b) == a.start + a.size <= b.start \/ b.start + b.size <= a.start
Inside(a, b) == b.start < a.start /\ a.start + a.size <= b.start + b.size

(* A well-formed disk: valid chains, primaries that do not overlap, and    *)
(* logical partitions that do not overlap and lie inside their extended    *)
(* partition, after its first sector.                                      *)
WellFormed(d) ==
  /\ ChainsValid(d)
  /\ \A a, b \in {pe \in Primaries(d) : pe.size > 0} : a # b => Disjoint(a, b)
  /\ \A pe \in {q \in Primaries(d) : IsExtended(q)} :
       \A a, b \in LogicalsOf(d, pe) : Inside(a, pe) /\ (a # b => Disjoint(a, b))

(* The GPT entries a header describes that lie inside the disk, and the   *)
(* partitions among them: all the entries the loop can read, since the    *)
(* slots grow with n.                                                      *)
GptReadSlots(h) ==
  {GptSlot(h, k) : k \in {k \in 0 .. h.num_entries - 1 : GptSlot(h, k) + EntryBytes <= DiskBytes}}
GptPartitions(h) == {gdisk[a] : a \in GptReadSlots(h)} \ {ge \in GptEntries : ge.type = GptEmpty}
Holds(ge, s) == ge.start <= s /\ s <= ge.end

(* What part_table_find returned, as the partition it names.               *)
FoundPartition ==
  [flag |-> found.entry.e.flag, type |-> found.entry.e.type,
   start |-> EntryOffset(found.scheme, found.entry), size |-> found.entry.e.size]

-----------------------------------------------------------------------------
(* Properties *)

(* When every extended partition's EBR chain starts with a readable EBR   *)
(* and ends, part_table_parse_msdos returns exactly the table the format  *)
(* describes: four entries in order and each extended one's logical       *)
(* partitions, linked relative to the extended partition's start.          *)
TableMatchesLayout ==
  pc \in {"probe", "done"} /\ pscheme = "mbr" /\ p \in Seq(TableEntry) /\ ChainsValid(disk) =>
    p = RefTable(disk)

(* On a well-formed disk, probe-volume's part_table_find for the start of *)
(* a partition returns that partition: the extended partition itself for  *)
(* its own start, and the logical partition for a logical start.  On a   *)
(* GPT disk whose entries do not overlap, it returns an entry holding the *)
(* sector exactly when one does: with ending_lba inclusive, and an entry  *)
(* whose end lies before its start never found, its size wrapping round.  *)
(* Entries past the end of the disk are not in the table, but none is     *)
(* lost before them.                                                       *)
FindLocatesPartition ==
  /\ pc = "done" /\ pscheme = "mbr" /\ p \in Seq(TableEntry) /\ WellFormed(disk) =>
       \A x \in Partitions(disk) :
         x.start = probe => found.entry # NotFound /\ FoundPartition = x
  /\ pc = "done" /\ pscheme = "gpt" /\
     (\A a, b \in GptPartitions(GptHeader) :
        a # b => a.end < b.start \/ b.end < a.start \/ a.end < a.start \/ b.end < b.start) =>
       IF \E x \in GptPartitions(GptHeader) : Holds(x, probe)
         THEN found.entry # NotFound /\ Holds(found.entry.e, probe)
         ELSE found.entry = NotFound

(* part_table_parse_msdos_extended keeps no record of the EBRs it has     *)
(* read: it returns exactly when every chain ends, and a chain that comes *)
(* back to an EBR keeps the prober in the loop for good (partutil.c:427). *)
ParseEndsIffChainsEnd ==
  /\ pc \in {"probe", "done"} /\ pscheme = "mbr" /\ p \in Seq(TableEntry) =>
       \A pe \in Primaries(disk) : IsExtended(pe) => ~ChainLoops(disk, pe.start)
  /\ pc = "hung" => ChainLoops(disk, Mbr.part[n].start)

=============================================================================
