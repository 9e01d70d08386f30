---------------------------- MODULE MC_PartTable ----------------------------
(* A disk of four sectors.  MBR entries of a Linux (0x83), RAID (0xfd)   *)
(* or extended (0x05) type at sector 1 or 2 of size 0 to 2, and a        *)
(* protective (0xee) entry over the disk from sector 1, each with a valid *)
(* (0x00) or invalid (0x01) flag.  EBRs with a RAID logical partition one *)
(* sector after them of size 0 or 1, and a link of start 0 to 2 and size  *)
(* 0 or 1.  From an extended partition at sector 1 links reach sectors 2  *)
(* and 3, so chains of three EBRs, self-loops and a loop through two EBRs *)
(* occur, and links taken from the wrong base land elsewhere; from one at *)
(* sector 2 a link can point past the end.  A GPT header with or without  *)
(* the signature, its entries at LBA 2 or 3, one or two of them, 128 or   *)
(* 512 bytes apart: the second entry 512 bytes after LBA 3 lies past the  *)
(* end of the disk.  Entries of the empty, Linux data or RAID type GUID,  *)
(* from sector 1 or 2 to sector 1 or 2, so entries that overlap and       *)
(* entries that end before they start occur.                              *)
EXTENDS PartTable

MCMbrEntries ==
  [flag : {0, 1}, type : {131, 253, 5}, start : {1, 2}, size : {0, 1, 2}] \cup
  [flag : {0, 1}, type : {238}, start : {1}, size : {3}]
MCEbrData == [flag : {0}, type : {253}, start : {1}, size : {0, 1}]
MCGptHeaders ==
  [magic : BOOLEAN, entry_lba : {2, 3}, num_entries : {1, 2}, size_of_entry : {128, 512}]
MCGptEntries ==
  [type : {GptEmpty, "0FC63DAF-8483-4772-8E79-3D69D8477DE4", GptRaid},
   start : {1, 2}, end : {1, 2}]
MCEbrLink == [flag : {0}, type : {0}, start : {0, 1, 2}, size : {0, 1}]
=============================================================================
