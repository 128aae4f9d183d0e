---------------------------- MODULE MetricsProxy ----------------------------
(***************************************************************************)
(* The /metrics endpoint of demo/memtierd/main.py.  read_stats() is a     *)
(* plain "def" handler, so FastAPI runs concurrent requests on its thread *)
(* pool: each client below is one such request at a time, and the steps   *)
(* of different requests interleave.  A request is compiled by Plan from  *)
(* its query flags into the sequence of file operations read_stats()      *)
(* performs; every read-modify-write of a JSON file is two steps, the     *)
(* json.load and the json.dump, with nothing held in between.             *)
(* memtierd itself is the environment: its status file (VmSwap, VmRSS)    *)
(* changes and its page-fault counters grow; the kernel's zram statistics *)
(* change with it.                                                        *)
(***************************************************************************)
EXTENDS Naturals, Sequences, SequencesExt, FiniteSets

CONSTANTS
    Clients,       \* concurrent requests in flight (thread-pool workers)
    Samples,       \* the [swap, rss] values a memtierd status file may show
    FlagChoices,   \* the sets of query flags the dashboard sends
    MaxRequests,   \* bound on the number of requests served
    MaxFaults,     \* bound on a page-fault counter
    ZramStats      \* the (orig_data_size, comp_data_size, mem_used_total) of mm_stat

Prios == {"high", "low"}
TsFiles == {"highTS", "lowTS"}                   \* *_TIME_SERIES_DATA_PATH
TsFileOf == [high |-> "highTS", low |-> "lowTS"]

VARIABLES
    sample,    \* sample[p]: what the memtierd output file of p shows now
    faults,    \* faults[p]: min_flt + maj_flt of the memtierd process of p
    tsFile,    \* tsFile[f]: the JSON dict of a time-series file, key -> series
    pfFile,    \* pfFile[p]: the page-fault series of page_faults_<p>_1.json
    flags,     \* flags[c]: the query flags of the request c serves
    plan,      \* plan[c]: the file operations c has still to perform
    buf,       \* buf[c]: the JSON data c loaded and will dump, or <<>> for none
    snap,      \* snap[c]: the page-fault counters handle_page_faults() read
    tag,       \* tag[c]: the request number, standing for its timestamp
    served,    \* requests started so far
    written,   \* history: every entry some request appended to a file
    zram,      \* the line of /sys/block/zram0/mm_stat now
    resp       \* resp[c]: what the readback and the zram step of c returned

vars == <<sample, faults, tsFile, pfFile, flags, plan, buf, snap, tag, served,
          written, zram, resp>>

----------------------------------------------------------------------------
(* read_stats(): the operations a request performs, in order *)
Op(kind, file, key) == [kind |-> kind, file |-> file, key |-> key]

\* handle_json_data(): load, then dump the file with the new entry.
TsUpdate(p) == <<Op("tsread", TsFileOf[p], p), Op("tswrite", TsFileOf[p], p)>>
\* add_page_fault_data(): load, then dump the page-fault series.
PfUpdate(p) == <<Op("pfread", p, p), Op("pfwrite", p, p)>>

\* json_file_path after the loop over file_paths: the highprio path is
\* assigned last whenever its flag is set.
JsonPath(F) == IF "tsHigh" \in F THEN "highTS" ELSE "lowTS"

\* The loop over [highprio, lowprio] calls handle_json_data only when the
\* file path and the flag name the same prio; then one readback of
\* handle_zram_and_compressed_data() when asked; then one readback of
\* json_file_path; then handle_page_faults() and the page-fault updates.
Plan(F) ==
    (IF "tsHigh" \in F THEN TsUpdate("high") ELSE <<>>)
    \o (IF "tsLow" \in F THEN TsUpdate("low") ELSE <<>>)
    \o (IF "zram" \in F THEN <<Op("zram", "", "")>> ELSE <<>>)
    \o (IF F \cap {"tsHigh", "tsLow"} # {} THEN <<Op("readback", JsonPath(F), "")>> ELSE <<>>)
    \o <<Op("pfsnap", "", "")>>
    \o (IF "pfLow" \in F THEN PfUpdate("low") ELSE <<>>)
    \o (IF "pfHigh" \in F THEN PfUpdate("high") ELSE <<>>)

\* Mutant: only the latest entry is compared with the new one.
DataIsDuplicateLast(series, e) ==
    /\ series # <<>>
    /\ Last(series).swap = e.swap
    /\ Last(series).rss = e.rss

\* data_is_duplicate(): some entry has the same VmSwap and some entry
\* (not necessarily the same one) has the same VmRSS.
DataIsDuplicate(series, e) ==
    /\ series # <<>>
    /\ \E i \in 1..Len(series) : series[i].swap = e.swap
    /\ \E i \in 1..Len(series) : series[i].rss = e.rss

\* time_series.append(new_entry)
AppendEntry(series, e) == Append(series, e)

\* Mutant: the diff is taken against the first entry instead of the latest.
PfDiffFirst(series, curr) == IF series = <<>> THEN 0 ELSE curr - Head(series).curr

\* The diff of a new page-fault entry against the latest one in the file.
PfDiff(series, curr) == IF series = <<>> THEN 0 ELSE curr - Last(series).curr

----------------------------------------------------------------------------
(* memtierd, the environment *)
StatusChanges(p) ==
    /\ \E s \in Samples : sample' = [sample EXCEPT ![p] = s]
    /\ UNCHANGED <<faults, tsFile, pfFile, flags, plan, buf, snap, tag, served,
                   written, zram, resp>>

ZramChanges ==
    /\ \E z \in ZramStats : zram' = z
    /\ UNCHANGED <<sample, faults, tsFile, pfFile, flags, plan, buf, snap, tag, served,
                   written, resp>>

PageFault(p) ==
    /\ faults[p] < MaxFaults
    /\ faults' = [faults EXCEPT ![p] = @ + 1]
    /\ UNCHANGED <<sample, tsFile, pfFile, flags, plan, buf, snap, tag, served,
                   written, zram, resp>>

----------------------------------------------------------------------------
(* One request *)
Cur(c) == Head(plan[c])

\* The response before any step has filled it.
NoResp == [asked |-> FALSE, ok |-> TRUE, got |-> <<>>, file |-> <<>>, zram |-> <<>>]

\* A GET /metrics arrives on an idle worker.
Request(c) ==
    /\ plan[c] = <<>> /\ served < MaxRequests
    /\ \E F \in FlagChoices :
          /\ flags' = [flags EXCEPT ![c] = F]
          /\ plan' = [plan EXCEPT ![c] = Plan(F)]
    /\ served' = served + 1
    /\ tag' = [tag EXCEPT ![c] = served + 1]
    /\ resp' = [resp EXCEPT ![c] = NoResp]
    /\ UNCHANGED <<sample, faults, tsFile, pfFile, buf, snap, written, zram>>

\* handle_data() reads the status file, then handle_json_data() loads the
\* JSON file and either returns on a duplicate or keeps the appended data.
TsRead(c) ==
    /\ plan[c] # <<>> /\ Cur(c).kind = "tsread"
    /\ LET p == Cur(c).key
           data == tsFile[Cur(c).file]
           e == [swap |-> sample[p].swap, rss |-> sample[p].rss, tag |-> tag[c]]
           dup == DataIsDuplicate(data[p], e)
       IN /\ buf' = [buf EXCEPT ![c] = IF dup THEN <<>>
                                      ELSE [data EXCEPT ![p] = AppendEntry(@, e)]]
          /\ plan' = [plan EXCEPT ![c] = IF dup THEN Tail(Tail(@)) ELSE Tail(@)]
    /\ UNCHANGED <<sample, faults, tsFile, pfFile, flags, snap, tag, served, written, zram, resp>>

\* write_json(data, filename): the whole file is replaced by what was loaded.
TsWrite(c) ==
    /\ plan[c] # <<>> /\ Cur(c).kind = "tswrite"
    /\ tsFile' = [tsFile EXCEPT ![Cur(c).file] = buf[c]]
    /\ written' = written \cup {<<Cur(c).file, Last(buf[c][Cur(c).key])>>}
    /\ plan' = [plan EXCEPT ![c] = Tail(@)]
    /\ UNCHANGED <<sample, faults, pfFile, flags, buf, snap, tag, served, zram, resp>>

\* The readback of json_file_path into the response; a missing key is a
\* KeyError, which ends the request with a 500 and skips the page faults.
Readback(c) ==
    /\ plan[c] # <<>> /\ Cur(c).kind = "readback"
    /\ LET data == tsFile[Cur(c).file]
           ok == "tsLow" \in flags[c] => "low" \in DOMAIN data
       IN /\ resp' = [resp EXCEPT ![c] =
                        [@ EXCEPT !.asked = "tsLow" \in flags[c], !.ok = ok,
                                  !.got = IF ok /\ "tsLow" \in flags[c] THEN data["low"] ELSE <<>>,
                                  !.file = tsFile["lowTS"]["low"]]]
          /\ plan' = [plan EXCEPT ![c] = IF ok THEN Tail(@) ELSE <<>>]
    /\ UNCHANGED <<sample, faults, tsFile, pfFile, flags, buf, snap, tag, served,
                   written, zram>>

\* handle_zram_and_compressed_data(): the last mm_stat line gives the
\* sizes; saved memory is orig - used, and "compressed" is
\* 100 - 100 * comp / orig, kept here as the exact fraction.  An
\* orig_data_size of 0 (zram set up, nothing swapped out yet) is a
\* ZeroDivisionError: the request ends with a 500 and skips the rest.
Zram(c) ==
    /\ plan[c] # <<>> /\ Cur(c).kind = "zram"
    /\ IF zram.orig = 0
       THEN /\ resp' = [resp EXCEPT ![c].ok = FALSE]
            /\ plan' = [plan EXCEPT ![c] = <<>>]
       ELSE /\ resp' = [resp EXCEPT ![c].zram =
                          [saved |-> zram.orig - zram.used,
                           compressed |-> <<100 * (zram.orig - zram.comp), zram.orig>>]]
            /\ plan' = [plan EXCEPT ![c] = Tail(@)]
    /\ UNCHANGED <<sample, faults, tsFile, pfFile, flags, buf, snap, tag, served,
                   written, zram>>

\* handle_page_faults(): pgrep and ps read every memtierd counter now.
PfSnap(c) ==
    /\ plan[c] # <<>> /\ Cur(c).kind = "pfsnap"
    /\ snap' = [snap EXCEPT ![c] = faults]
    /\ plan' = [plan EXCEPT ![c] = Tail(@)]
    /\ UNCHANGED <<sample, faults, tsFile, pfFile, flags, buf, tag, served,
                   written, zram, resp>>

\* add_page_fault_data(): load the series, append the snapshot with its diff
\* against the latest entry.
PfRead(c) ==
    /\ plan[c] # <<>> /\ Cur(c).kind = "pfread"
    /\ LET p == Cur(c).key
           curr == snap[c][p]
       IN buf' = [buf EXCEPT ![c] =
                    Append(pfFile[p], [curr |-> curr, diff |-> PfDiff(pfFile[p], curr),
                                       tag |-> tag[c]])]
    /\ plan' = [plan EXCEPT ![c] = Tail(@)]
    /\ UNCHANGED <<sample, faults, tsFile, pfFile, flags, snap, tag, served,
                   written, zram, resp>>

PfWrite(c) ==
    /\ plan[c] # <<>> /\ Cur(c).kind = "pfwrite"
    /\ pfFile' = [pfFile EXCEPT ![Cur(c).key] = buf[c]]
    /\ written' = written \cup {<<Cur(c).key, Last(buf[c])>>}
    /\ plan' = [plan EXCEPT ![c] = Tail(@)]
    /\ UNCHANGED <<sample, faults, tsFile, flags, buf, snap, tag, served, zram, resp>>

----------------------------------------------------------------------------
\* The data/ files as shipped: each time-series file holds its own series,
\* possibly with an empty series of the other prio as well.
InitTsFiles ==
    {[f \in TsFiles |-> IF f = "highTS" THEN hi ELSE lo] :
        hi \in {[k \in {"high"} |-> <<>>], [k \in Prios |-> <<>>]},
        lo \in {[k \in {"low"} |-> <<>>], [k \in Prios |-> <<>>]}}

Init ==
    /\ sample \in [Prios -> Samples]
    /\ faults = [p \in Prios |-> 0]
    /\ tsFile \in InitTsFiles
    /\ pfFile = [p \in Prios |-> <<>>]
    /\ flags = [c \in Clients |-> {}]
    /\ plan = [c \in Clients |-> <<>>]
    /\ buf = [c \in Clients |-> <<>>]
    /\ snap = [c \in Clients |-> [p \in Prios |-> 0]]
    /\ tag = [c \in Clients |-> 0]
    /\ served = 0
    /\ written = {}
    /\ zram \in ZramStats
    /\ resp = [c \in Clients |-> NoResp]

Next ==
    \/ \E p \in Prios : StatusChanges(p) \/ PageFault(p)
    \/ ZramChanges
    \/ \E c \in Clients :
          Request(c) \/ TsRead(c) \/ TsWrite(c) \/ Zram(c) \/ Readback(c)
          \/ PfSnap(c) \/ PfRead(c) \/ PfWrite(c)

\* Each worker runs its request to the end; the environment needs none.
Spec == Init /\ [][Next]_vars
        /\ \A c \in Clients : WF_vars(TsRead(c) \/ TsWrite(c) \/ Zram(c) \/ Readback(c)
                                      \/ PfSnap(c) \/ PfRead(c) \/ PfWrite(c))

----------------------------------------------------------------------------
(* Properties *)
\* Every reading a request appended and dumped (handle_json_data,
\* add_page_fault_data) is still in its file: no later json.dump of a
\* load taken before it dropped it.  A reading is what the entry records
\* of memtierd (VmSwap and VmRSS, or the fault counter), not its timestamp,
\* so an entry lost only in favour of an equal reading does not count.
Series(f) == IF f \in TsFiles THEN tsFile[f][IF f = "highTS" THEN "high" ELSE "low"]
             ELSE pfFile[f]
Reading(e) == IF "swap" \in DOMAIN e THEN <<e.swap, e.rss>> ELSE <<e.curr>>
NoLostReading ==
    \A w \in written : \E i \in 1..Len(Series(w[1])) : Reading(Series(w[1])[i]) = Reading(w[2])

\* The page-fault series of a prio is what the dashboard plots as rates:
\* every entry's diff is its counter minus the previous entry's counter,
\* and the counters never go down (memtierd's counters only grow).
PfDiffsConsistent ==
    \A p \in Prios : \A i \in 2..Len(pfFile[p]) :
        /\ pfFile[p][i].diff = pfFile[p][i].curr - pfFile[p][i - 1].curr
        /\ pfFile[p][i].diff >= 0

\* A request with fetch_time_series_lowprio_1 gets back the lowprio
\* series of the lowprio time-series file (read_stats' readback of
\* json_file_path).
ReadbackOwnSeries ==
    \A c \in Clients : resp[c].asked => resp[c].ok /\ resp[c].got = resp[c].file

\* No time series holds two entries with the same VmSwap and VmRSS: the
\* check "if datapoint is already present in the dataset" of
\* handle_json_data() runs against every entry of the loaded series, so a
\* status file that returns to an earlier reading is not recorded twice.
NoDuplicateSample ==
    \A f \in TsFiles : \A k \in DOMAIN tsFile[f] :
        \A i, j \in 1..Len(tsFile[f][k]) :
            i < j => <<tsFile[f][k][i].swap, tsFile[f][k][i].rss>>
                     # <<tsFile[f][k][j].swap, tsFile[f][k][j].rss>>

\* A request with fetch_zram_data that has run to its end carries the
\* zram_and_compressed statistics of handle_zram_and_compressed_data().
ZramAnswered ==
    \A c \in Clients : ("zram" \in flags[c] /\ plan[c] = <<>>) => resp[c].zram # <<>>
=============================================================================
