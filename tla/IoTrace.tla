------------------------------ MODULE IoTrace ------------------------------
(***************************************************************************)
(* IO/iotrace/iotrace.c: one file written and read back in seven ways      *)
(* (buffered, O_DIRECT, O_SYNC, both, and through a shared mapping), with  *)
(* the page cache, the device's cache and the medium as external state.    *)
(* Any call may fail, and the machine may stop at any time.                *)
(***************************************************************************)
EXTENDS Integers, Sequences

VARIABLES mode, pc,      \* which of the seven, and the next of its calls
          pos, size,     \* the file offset and the file's length
          cache, dirty,  \* the pages in memory (0: not there) and those newer than the device
          dev, media     \* what the device holds, and what of it would survive

ioVars == <<mode, pc, pos, size, cache, dirty, dev, media>>

Units == 1 .. 3          \* the file's contents, one unit for each write, and its end
Blank == [u \in Units |-> 0]

\* The calls of each mode between open and close
Mode(flags, calls) == [flags |-> flags, calls |-> calls]
normal_io == Mode({}, <<"write", "write", "seek", "read", "fsync">>)
direct_io == Mode({"DIRECT"}, <<"write", "fsync", "seek", "read">>)
o_sync_io == Mode({"SYNC"}, <<"write", "write", "fsync", "seek", "read">>)
o_sync_direct_io == Mode({"SYNC", "DIRECT"}, <<"write", "fsync", "seek", "read">>)
\* mutant: the mapping is left to the kernel
mmap_unsynced == Mode({}, <<"fallocate", "store", "read">>)
mmap_msync == Mode({}, <<"fallocate", "store", "read", "msync">>)
mmap_fsync == Mode({}, <<"fallocate", "store", "read", "fsync">>)
mmap_direct == Mode({"DIRECT"}, <<"fallocate", "store", "read", "msync">>)
modes == <<normal_io, direct_io, o_sync_io, o_sync_direct_io, mmap_msync, mmap_fsync, mmap_direct>>

Init ==
    /\ mode = 1 /\ pc = 0 /\ pos = 1 /\ size = 0
    /\ cache = Blank /\ dirty = {} /\ dev = Blank /\ media = Blank

Direct == "DIRECT" \in modes[mode].flags
Call == modes[mode].calls[pc]
At(call) == mode <= Len(modes) /\ pc \in 1 .. Len(modes[mode].calls) /\ Call = call
Goes == pc' = pc + 1 /\ UNCHANGED mode

\* open with O_TRUNC (and mmap, for those that map)
Open ==
    /\ mode <= Len(modes) /\ pc = 0 /\ Goes
    /\ pos' = 1 /\ size' = 0 /\ cache' = Blank /\ dirty' = {}
    /\ UNCHANGED <<dev, media>>
\* What the kernel has to show for a unit: its page, else the device's copy
Shown(u) == IF cache[u] # 0 THEN cache[u] ELSE dev[u]
Flushed(us) == [u \in Units |-> IF u \in us /\ u \in dirty THEN cache[u] ELSE dev[u]]

\* write at the file offset: to the pages, or with O_DIRECT to the device; O_SYNC waits for the medium
Write ==
    /\ At("write") /\ Goes /\ pos' = pos + 1 /\ size' = IF pos > size THEN pos ELSE size
    /\ IF Direct THEN cache' = [cache EXCEPT ![pos] = 0] /\ dirty' = dirty \ {pos} /\ dev' = [dev EXCEPT ![pos] = mode]
       ELSE IF "SYNC" \in modes[mode].flags
       THEN cache' = [cache EXCEPT ![pos] = mode] /\ dirty' = dirty \ {pos} /\ dev' = [dev EXCEPT ![pos] = mode]
       ELSE cache' = [cache EXCEPT ![pos] = mode] /\ dirty' = dirty \cup {pos} /\ UNCHANGED dev
    /\ IF "SYNC" \in modes[mode].flags THEN media' = [media EXCEPT ![pos] = mode]
       ELSE UNCHANGED media
\* fallocate gives the mapping its bytes; a store dirties the page.
Fallocate == At("fallocate") /\ Goes /\ size' = 1 /\ UNCHANGED <<pos, cache, dirty, dev, media>>
Store ==
    /\ At("store") /\ Goes /\ cache' = [cache EXCEPT ![1] = mode] /\ dirty' = dirty \cup {1}
    /\ UNCHANGED <<pos, size, dev, media>>
Seek == At("seek") /\ Goes /\ pos' = 1 /\ UNCHANGED <<size, cache, dirty, dev, media>>
\* read and strncmp; with O_DIRECT the kernel first writes the dirty pages of the range out
Read ==
    /\ At("read") /\ pos' = pos + 1
    /\ dev' = IF Direct THEN Flushed({pos}) ELSE dev
    /\ dirty' = IF Direct THEN dirty \ {pos} ELSE dirty
    /\ IF pos <= size /\ (IF Direct THEN dev'[pos] ELSE Shown(pos)) = mode THEN Goes ELSE pc' = 99 /\ UNCHANGED mode
    /\ UNCHANGED <<size, cache, media>>
\* fsync, msync(MS_SYNC): the dirty pages and the device's cache go to the medium.
Sync ==
    /\ At("fsync") \/ At("msync")
    /\ Goes /\ dev' = Flushed(Units) /\ dirty' = {} /\ media' = Flushed(Units)
    /\ UNCHANGED <<pos, size, cache>>
Close ==
    /\ mode <= Len(modes) /\ pc = Len(modes[mode].calls) + 1
    /\ mode' = mode + 1 /\ pc' = 0 /\ UNCHANGED <<pos, size, cache, dirty, dev, media>>
\* A call fails: perror and exit(1)
Fail ==
    /\ mode <= Len(modes) /\ pc \in 0 .. Len(modes[mode].calls) + 1 /\ pc' = 98
    /\ UNCHANGED <<mode, pos, size, cache, dirty, dev, media>>
\* The kernel writes a page back, the device a block, when they like.
WriteBack ==
    /\ UNCHANGED <<mode, pc, pos, size, cache>>
    /\ \/ \E u \in dirty : dev' = Flushed({u}) /\ dirty' = dirty \ {u} /\ UNCHANGED media
       \/ \E u \in Units : dev[u] # media[u] /\ media' = [media EXCEPT ![u] = dev[u]] /\ UNCHANGED <<dev, dirty>>

Calls == Open \/ Write \/ Fallocate \/ Store \/ Seek \/ Read \/ Sync \/ Close
Next == Calls \/ Fail \/ WriteBack
Spec == Init /\ [][Next]_ioVars

----------------------------------------------------------------------------
\* Once a mode has called fsync or msync, and at the latest when it closes the file, all of
\* the file is on the medium and stays there until it is opened anew: losing power then
\* loses nothing, whatever went through the pages, the device or a mapping.
Durable ==
    mode <= Len(modes) /\ pc \in 1 .. Len(modes[mode].calls) + 1
      /\ (pc = Len(modes[mode].calls) + 1 \/ \E k \in 1 .. pc - 1 : modes[mode].calls[k] \in {"fsync", "msync"})
    => \A u \in 1 .. size : media[u] = mode
\* Every mode reads back what it wrote, the mapping read with O_DIRECT included.
ReadsBack == pc # 99
TraceOk == Durable /\ ReadsBack
=============================================================================
