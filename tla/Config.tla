------------------------------- MODULE Config -------------------------------
(***************************************************************************)
(* From the command line to the options of RocksDB and to the logs: the    *)
(* DBEnv instance (db_env.h), parse_arguments (parse_arguments.h), which   *)
(* calls the reader of module ArgumentParser, configOptions                *)
(* (config_options.h) and the two routines of utils.cc that report what    *)
(* was configured, as main and runWorkload call them.                      *)
(*                                                                         *)
(* The five structures configOptions fills in are one function here, from  *)
(* the name of an option to its value; the enumerators of RocksDB are      *)
(* strings.  Sizes are scaled down with the widths of the integers.        *)
(***************************************************************************)
EXTENDS ArgumentParser

CONSTANT Megabyte   \* bytes in a megabyte of block cache

ASSUME MegabyteAssumption == Megabyte \in Nat \ {0}

VARIABLES
  env,      \* the DBEnv instance
  options,  \* what configOptions has filled in
  perf,     \* what RocksDB is to measure
  log,      \* what is reported in the log
  stmt

vars == <<parserVars, env, options, perf, log, stmt>>

UInt(n) == n % 2 ^ UIntBits          \* to unsigned int
UInt16(n) == n % 65536               \* to uint16_t
SizeT(n) == n % 2 ^ LongBits         \* to size_t, uint64_t
Long(n) == IF n >= 2 ^ (LongBits - 1) THEN n - 2 ^ LongBits ELSE n

(* The options of f, and those of g that f has not.                         *)
With(f, g) ==
  [o \in DOMAIN f \cup DOMAIN g |-> IF o \in DOMAIN f THEN f[o] ELSE g[o]]

-----------------------------------------------------------------------------
(* DBEnv.  The period of 6 hours is counted in seconds (TLC has 32 bits).   *)

DBOptionsDefaults ==
  [create_if_missing |-> TRUE, clear_system_cache |-> TRUE,
   max_open_files |-> 1000, max_file_opening_threads |-> 1000,
   bytes_per_sync |-> 0, enable_thread_tracking |-> FALSE,
   allow_concurrent_memtable_write |-> FALSE,
   stats_history_buffer_size |-> 1024 * 1024, dump_malloc_stats |-> FALSE,
   avoid_flush_during_shutdown |-> FALSE, advise_random_on_open |-> TRUE,
   delete_obsolete_files_period_micros |-> 6 * 60 * 60,
   allow_mmap_reads |-> FALSE, allow_mmap_writes |-> FALSE, verbosity |-> 0]

TreeDefaults ==
  [entry_size |-> UInt(64), entries_per_page |-> UInt(64),
   buffer_size_in_pages |-> UInt(128), size_ratio |-> 4,
   file_to_memtable_size_ratio |-> 1, max_write_buffer_number |-> 2,
   bits_per_key |-> 10, compaction_pri |-> 1, memtable_factory |-> 1,
   level_compaction_dynamic_level_bytes |-> FALSE, compaction_style |-> 1,
   disable_auto_compactions |-> FALSE,
   level0_file_num_compaction_trigger |-> 4, num_levels |-> 10,
   target_file_size_multiplier |-> 1, max_background_jobs |-> 1,
   soft_pending_compaction_bytes_limit |-> 0,
   hard_pending_compaction_bytes_limit |-> 0,
   periodic_compaction_seconds |-> 0,
   use_direct_io_for_flush_and_compaction |-> TRUE, use_direct_reads |-> TRUE]

TableOptionsDefaults ==
  [no_block_cache |-> FALSE, block_cache |-> 0,
   cache_index_and_filter_blocks |-> TRUE, read_amp_bytes_per_bit |-> 0,
   data_block_index_type |-> 1, index_type |-> 1, partition_filters |-> FALSE,
   metadata_block_size |-> 4096, pin_top_level_index_and_filter |-> FALSE,
   index_shortening |-> 1, block_size_deviation |-> 0,
   enable_index_compression |-> FALSE, compression |-> 1]

ReadWriteOptionsDefaults ==
  [verify_checksums |-> TRUE, fill_cache |-> FALSE,
   ignore_range_deletions |-> FALSE, read_tier |-> 1,
   low_pri |-> TRUE, sync |-> FALSE, disableWAL |-> TRUE, no_slowdown |-> FALSE,
   ignore_missing_column_families |-> FALSE]

ColumnFamilyOptionsDefaults ==
  [comparator |-> 1, max_sequential_skip_in_iterations |-> 8,
   memtable_prefix_bloom_size_ratio |-> 0,
   level0_slowdown_writes_trigger |-> 3, level0_stop_writes_trigger |-> 4,
   paranoid_file_checks |-> FALSE, optimize_filters_for_hits |-> FALSE,
   inplace_update_support |-> FALSE, inplace_update_num_locks |-> 10000,
   report_bg_io_stats |-> TRUE, wait |-> TRUE, allow_write_stall |-> TRUE]

PrivateDefaults ==
  [buffer_size_ |-> 0, rocksdb_stats_ |-> FALSE, perf_stats_ |-> FALSE,
   iostat_stats_ |-> FALSE, destroy_database_ |-> TRUE,
   show_progress_bar_ |-> FALSE,
   is_per_op_timer |-> FALSE, is_total_timer |-> FALSE]

Defaults ==
  With(DBOptionsDefaults, With(TreeDefaults, With(TableOptionsDefaults,
    With(ReadWriteOptionsDefaults,
         With(ColumnFamilyOptionsDefaults, PrivateDefaults)))))

(* Mutant of GetBlockSize: the product is widened before it is taken.       *)
GetBlockSizeWide(e) == e.entries_per_page * e.entry_size

GetBlockSize(e) == UInt(e.entries_per_page * e.entry_size)

(* Mutant of GetBufferSize: the entries of a page are forgotten.            *)
GetBufferSizeOfEntries(e) ==
  IF e.buffer_size_ # 0
  THEN e.buffer_size_
  ELSE UInt(e.buffer_size_in_pages * e.entry_size)

(* The product of three unsigned ints is one, whatever it is returned as.   *)
GetBufferSize(e) ==
  IF e.buffer_size_ # 0
  THEN e.buffer_size_
  ELSE UInt(UInt(e.buffer_size_in_pages * e.entries_per_page) * e.entry_size)

GetTargetFileSizeBase(e) == Long(GetBufferSize(e))

GetMaxBytesForLevelBase(e) == SizeT(GetTargetFileSizeBase(e))

-----------------------------------------------------------------------------
(* parse_arguments, after the reader.                                      *)

Given(f) == f \in matched

Argument(f, default) == IF Given(f) THEN value[f] ELSE default

Switch(f, default) == IF Given(f) THEN value[f] # 0 ELSE default

(* The size ratio first: the three triggers of level 0 follow from it.      *)
SetSizeRatio(e) ==
  LET T == Argument("T", e.size_ratio)
  IN  [e EXCEPT !.size_ratio = T,
                !.level0_slowdown_writes_trigger = T - 1,
                !.level0_stop_writes_trigger = T,
                !.level0_file_num_compaction_trigger = T]

SetDatabase(e) ==
  [e EXCEPT
    !.destroy_database_ = Switch("d", e.destroy_database_),
    !.clear_system_cache = Switch("cc", e.clear_system_cache)]

(* Mutant of SetSizes: a flag is read whether or not it is given.           *)
SetSizesUnasked(e) ==
  [e EXCEPT
    !.buffer_size_in_pages = UInt(value.P),
    !.entries_per_page = UInt(Argument("B", e.entries_per_page)),
    !.entry_size = UInt(Argument("E", e.entry_size)),
    !.buffer_size_ = SizeT(Argument("M", 0))]

SetSizes(e) ==
  [e EXCEPT
    !.buffer_size_in_pages = UInt(Argument("P", e.buffer_size_in_pages)),
    !.entries_per_page = UInt(Argument("B", e.entries_per_page)),
    !.entry_size = UInt(Argument("E", e.entry_size)),
    !.buffer_size_ = SizeT(Argument("M", 0)),
    !.file_to_memtable_size_ratio =
      UInt(Argument("f", e.file_to_memtable_size_ratio))]

SetPolicies(e) ==
  [e EXCEPT
    !.compaction_pri = UInt16(Argument("c", e.compaction_pri)),
    !.compaction_style = SizeT(Argument("C", e.compaction_style)),
    !.bits_per_key = Argument("b", e.bits_per_key),
    !.block_cache = Argument("bb", e.block_cache),
    !.low_pri = Switch("lowpri", e.low_pri)]

SetReports(e) ==
  [e EXCEPT
    !.verbosity = Argument("V", e.verbosity),
    !.is_per_op_timer = Switch("peroptime", e.is_per_op_timer),
    !.is_total_timer = Switch("totaltime", e.is_total_timer),
    !.perf_stats_ = Switch("perf", e.perf_stats_),
    !.iostat_stats_ = Switch("iostat", e.iostat_stats_),
    !.rocksdb_stats_ = Switch("stat", e.rocksdb_stats_),
    !.show_progress_bar_ = Switch("progress", e.show_progress_bar_)]

ReadArguments ==
  /\ stmt = "parse_arguments"
  /\ ParseCLI
  /\ UNCHANGED <<env, options, perf, log, stmt>>

(* Mutant of SetArguments: the triggers are set before the ratio is.        *)
SetTriggersFirst ==
  /\ stmt = "parse_arguments" /\ status = "parsed"
  /\ env' = [SetReports(SetPolicies(SetSizes(SetDatabase(env)))) EXCEPT
               !.size_ratio = Argument("T", env.size_ratio)]
  /\ stmt' = "configOptions"
  /\ UNCHANGED <<parserVars, options, perf, log>>

SetArguments ==
  /\ stmt = "parse_arguments" /\ status = "parsed"
  /\ env' = SetReports(SetPolicies(SetSizes(SetSizeRatio(SetDatabase(env)))))
  /\ stmt' = "configOptions"
  /\ UNCHANGED <<parserVars, options, perf, log>>

(* parse_arguments returns 1, and main exits.                               *)
ParseFails ==
  /\ stmt = "parse_arguments" /\ status = "ParseError"
  /\ stmt' = "exited"
  /\ UNCHANGED <<parserVars, env, options, perf, log>>

-----------------------------------------------------------------------------
(* configOptions.                                                          *)

(* What Options() has when configOptions leaves it alone.                   *)
RocksDBDefaults ==
  [compaction_style |-> "Level", compaction_pri |-> "MinOverlappingRatio",
   memtable_factory |-> "SkipList", compression |-> "Snappy",
   data_block_index_type |-> "BinarySearch", index_type |-> "BinarySearch",
   index_shortening |-> "ShortenSeparators", read_tier |-> "ReadAllTier",
   comparator |-> "Bytewise",
   level0_file_num_compaction_trigger |-> 4, num_levels |-> 7]

CompactionPris ==
  <<"MinOverlappingRatio", "ByCompensatedSize", "OldestLargestSeqFirst",
    "OldestSmallestSeqFirst", "RoundRobin">>

MemtableFactories == <<"SkipList", "Vector", "HashSkipList", "HashLinkList">>

CompactionStyles == <<"Level", "Universal", "FIFO", "None">>

DataBlockIndexTypes == <<"BinarySearch", "BinaryAndHash">>

IndexTypes ==
  <<"BinarySearch", "HashSearch", "TwoLevelIndexSearch",
    "BinarySearchWithFirstKey">>

IndexShortenings ==
  <<"NoShortening", "ShortenSeparators", "ShortenSeparatorsAndSuccessor">>

(* There is no case 9.                                                      *)
Compressions ==
  With(<<"No", "Snappy", "Zlib", "BZip2", "LZ4", "LZ4HC", "Xpress", "ZSTD">>,
       [n \in {10} |-> "Disable"])

ReadTiers ==
  <<"ReadAllTier", "BlockCacheTier", "PersistedTier", "MemtableTier">>

Comparators == <<"Bytewise", "ReverseBytewise">>

Cases ==
  [compaction_pri |-> CompactionPris, memtable_factory |-> MemtableFactories,
   compaction_style |-> CompactionStyles,
   data_block_index_type |-> DataBlockIndexTypes, index_type |-> IndexTypes,
   index_shortening |-> IndexShortenings, compression |-> Compressions,
   read_tier |-> ReadTiers, comparator |-> Comparators]

(* Mutant of Chosen: the cases are numbered from 0.                         *)
ChosenFromZero(o, n) ==
  IF n + 1 \in DOMAIN Cases[o] THEN Cases[o][n + 1] ELSE RocksDBDefaults[o]

(* A number with no case only gets a message: the option keeps the default  *)
(* of RocksDB.                                                              *)
Chosen(o, n) ==
  IF n \in DOMAIN Cases[o] THEN Cases[o][n] ELSE RocksDBDefaults[o]

CopiedDBOptions ==
  {"create_if_missing", "max_open_files", "max_file_opening_threads",
   "bytes_per_sync", "enable_thread_tracking",
   "allow_concurrent_memtable_write", "stats_history_buffer_size",
   "dump_malloc_stats", "avoid_flush_during_shutdown",
   "advise_random_on_open", "delete_obsolete_files_period_micros",
   "allow_mmap_reads", "allow_mmap_writes"}

CopiedTreeOptions ==
  {"disable_auto_compactions", "target_file_size_multiplier",
   "max_background_jobs", "soft_pending_compaction_bytes_limit",
   "hard_pending_compaction_bytes_limit", "periodic_compaction_seconds",
   "use_direct_io_for_flush_and_compaction", "use_direct_reads",
   "max_write_buffer_number", "level_compaction_dynamic_level_bytes"}

CopiedTableOptions ==
  {"read_amp_bytes_per_bit", "partition_filters", "metadata_block_size",
   "pin_top_level_index_and_filter", "block_size_deviation",
   "enable_index_compression"}

CopiedReadWriteOptions ==
  {"verify_checksums", "fill_cache", "ignore_range_deletions", "low_pri",
   "sync", "disableWAL", "no_slowdown", "ignore_missing_column_families"}

CopiedColumnFamilyOptions ==
  {"max_sequential_skip_in_iterations", "memtable_prefix_bloom_size_ratio",
   "level0_slowdown_writes_trigger", "level0_stop_writes_trigger",
   "paranoid_file_checks", "optimize_filters_for_hits",
   "inplace_update_support", "inplace_update_num_locks", "report_bg_io_stats",
   "wait", "allow_write_stall"}

Copied ==
  CopiedDBOptions \cup CopiedTreeOptions \cup CopiedTableOptions
    \cup CopiedReadWriteOptions \cup CopiedColumnFamilyOptions

SizesOf(e) ==
  [max_bytes_for_level_multiplier |-> e.size_ratio,
   write_buffer_size |-> GetBufferSize(e),
   target_file_size_base |-> SizeT(GetTargetFileSizeBase(e)),
   max_bytes_for_level_base |-> GetMaxBytesForLevelBase(e),
   block_size |-> GetBlockSize(e), arena_block_size |-> GetBlockSize(e)]

(* The bits per key of a Bloom filter, or no filter.                        *)
FilterPolicy(e) ==
  [filter_policy |-> IF e.bits_per_key = 0 THEN {} ELSE {e.bits_per_key}]

(* Mutant of ShapeOf: RocksDB keeps its own shape whatever the style.       *)
ShapeOfDefaults(e) ==
  [level0_file_num_compaction_trigger |->
     RocksDBDefaults.level0_file_num_compaction_trigger,
   num_levels |-> RocksDBDefaults.num_levels]

(* For the universal style, level 0 and the number of levels are left to    *)
(* RocksDB.                                                                *)
ShapeOf(e) ==
  LET from == IF Chosen("compaction_style", e.compaction_style) = "Universal"
              THEN RocksDBDefaults ELSE e
  IN  [level0_file_num_compaction_trigger |->
         from.level0_file_num_compaction_trigger,
       num_levels |-> from.num_levels]

(* The capacity of the cache, which is a product of ints: where it does not *)
(* fit, it has wrapped around or was taken wider.                           *)
Capacities(e) ==
  LET exact == e.block_cache * Megabyte
      half == 2 ^ (UIntBits - 1)
  IN  {SizeT(exact), SizeT(UInt(exact + half) - half)}

(* The cache, if there is one.                                              *)
CacheOf(e, capacity) ==
  [no_block_cache |-> e.block_cache = 0,
   block_cache |-> IF e.block_cache = 0 THEN {} ELSE {capacity},
   cache_index_and_filter_blocks |->
     e.block_cache # 0 /\ e.cache_index_and_filter_blocks]

Statistics(e) ==
  [statistics |-> IF e.rocksdb_stats_ THEN "All" ELSE "DisableAll"]

ConfiguredFrom(e, capacity) ==
  With([o \in Copied |-> e[o]], With([o \in DOMAIN Cases |-> Chosen(o, e[o])],
    With(SizesOf(e), With(FilterPolicy(e), With(ShapeOf(e),
      With(CacheOf(e, capacity), Statistics(e)))))))

(* Mutant of PerfOf: I/O statistics come first.                             *)
PerfOfIOFirst(e) ==
  [level |-> CASE e.iostat_stats_ -> "Count"
               [] e.perf_stats_ /\ ~e.iostat_stats_ -> "TimeAndCPU"
               [] OTHER -> "Disable",
   perLevel |-> e.perf_stats_, iostats |-> e.iostat_stats_]

(* SetPerfLevel and the two thread-local contexts of RocksDB.               *)
PerfOf(e) ==
  [level |-> CASE e.perf_stats_ -> "TimeAndCPU"
               [] ~e.perf_stats_ /\ e.iostat_stats_ -> "Count"
               [] OTHER -> "Disable",
   perLevel |-> e.perf_stats_, iostats |-> e.iostat_stats_]

ConfigOptions ==
  /\ stmt = "configOptions"
  /\ \E capacity \in Capacities(env) : options' = ConfiguredFrom(env, capacity)
  /\ perf' = PerfOf(env)
  /\ env' = [env EXCEPT !.no_block_cache = options'.no_block_cache]
  /\ stmt' = "PrintExperimentalSetup"
  /\ UNCHANGED <<parserVars, log>>

-----------------------------------------------------------------------------
(* What runWorkload reports of it.                                         *)

NoOptions == <<>>
NoRow == <<>>

SetupRow(e) ==
  [cmpt_sty |-> e.compaction_style, cmpt_pri |-> e.compaction_pri,
   T |-> e.size_ratio, P |-> e.buffer_size_in_pages,
   B |-> e.entries_per_page, E |-> e.entry_size, M |-> GetBufferSize(e),
   file_size |-> GetTargetFileSizeBase(e),
   L1_size |-> GetMaxBytesForLevelBase(e),
   blk_cch |-> e.block_cache, BPK |-> e.bits_per_key]

PrintExperimentalSetup ==
  /\ stmt = "PrintExperimentalSetup"
  /\ log' = [log EXCEPT !.setup = IF env.verbosity > 0 THEN SetupRow(env) ELSE @]
  /\ stmt' = "DB::Open"
  /\ UNCHANGED <<parserVars, env, options, perf>>

(* After the workload, which is the subject of RunWorkload and leaves the   *)
(* configuration alone.                                                     *)
PrintRocksDBPerfStats ==
  /\ stmt = "DB::Open"
  /\ log' = [log EXCEPT !.sections =
               {s \in {"Rocksdb Stats", "Perf Context", "IO Stats Context"} :
                  CASE s = "Rocksdb Stats" -> env.rocksdb_stats_
                    [] s = "Perf Context" -> env.perf_stats_
                    [] s = "IO Stats Context" -> env.iostat_stats_}]
  /\ perf' = IF env.rocksdb_stats_ THEN [perf EXCEPT !.level = "Disable"] ELSE perf
  /\ stmt' = "returned"
  /\ UNCHANGED <<parserVars, env, options>>

-----------------------------------------------------------------------------
Init ==
  /\ ParserInit
  /\ env = Defaults
  /\ options = NoOptions
  /\ perf = [level |-> "Count", perLevel |-> FALSE, iostats |-> TRUE]
  /\ log = [setup |-> NoRow, sections |-> {}]
  /\ stmt = "parse_arguments"

Next ==
  \/ ReadArguments \/ SetArguments \/ ParseFails
  \/ ConfigOptions \/ PrintExperimentalSetup \/ PrintRocksDBPerfStats

Spec == Init /\ [][Next]_vars

-----------------------------------------------------------------------------
(* Properties.                                                             *)

UInts == 0 .. 2 ^ UIntBits - 1

Configured == options # NoOptions

TypeOK ==
  /\ ParserTypeOK
  /\ stmt \in {"parse_arguments", "configOptions", "PrintExperimentalSetup",
               "DB::Open", "returned", "exited"}
  /\ DOMAIN env = DOMAIN Defaults
  /\ env.buffer_size_in_pages \in UInts /\ env.entries_per_page \in UInts
  /\ env.entry_size \in UInts
  /\ Configured => options.block_size \in UInts
  /\ Configured <=> stmt \in {"PrintExperimentalSetup", "DB::Open", "returned"}

(* The triggers of level 0 that reach RocksDB follow the size ratio that    *)
(* does, whether it was given or not: writes stop at T files, slow down at  *)
(* T - 1, and a compaction is due at T unless the style has its own.        *)
TriggersFollowRatio ==
  Configured =>
    LET T == options.max_bytes_for_level_multiplier
    IN  /\ options.level0_stop_writes_trigger = T
        /\ options.level0_slowdown_writes_trigger = T - 1
        /\ options.compaction_style # "Universal" =>
             options.level0_file_num_compaction_trigger = T

(* In the two styles that compact level 0 by the number of its files (not   *)
(* FIFO, and not None), a compaction is due by the time writes stop, or     *)
(* nothing would let them go on.  configOptions asks RocksDB for the        *)
(* contrary in two cases only: a size ratio below 1, with which writes stop *)
(* at no file at all and "level-0 compaction will not be triggered"         *)
(* (db_env.h, of a value below 0); and the universal style, which keeps     *)
(* RocksDB's trigger of 4 files, with a size ratio below 4.                 *)
CompactionDueBeforeStop ==
  Configured /\ options.compaction_style \in {"Level", "Universal"} =>
    \/ /\ 1 <= options.level0_file_num_compaction_trigger
       /\ options.level0_file_num_compaction_trigger
            <= options.level0_stop_writes_trigger
    \/ Given("T") /\ value.T < 1
    \/ Given("C") /\ value.C = 2 /\ Given("T") /\ value.T < 4

(* The flags an option depends on; the other options depend on none.        *)
DependsOn ==
  [max_bytes_for_level_multiplier |-> {"T"},
   write_buffer_size |-> {"P", "B", "E", "M"},
   target_file_size_base |-> {"P", "B", "E", "M"},
   max_bytes_for_level_base |-> {"P", "B", "E", "M"},
   block_size |-> {"B", "E"}, arena_block_size |-> {"B", "E"},
   compaction_style |-> {"C"}, compaction_pri |-> {"c"},
   level0_file_num_compaction_trigger |-> {"T", "C"}, num_levels |-> {"C"},
   level0_slowdown_writes_trigger |-> {"T"},
   level0_stop_writes_trigger |-> {"T"},
   filter_policy |-> {"b"}, block_cache |-> {"bb"}, no_block_cache |-> {"bb"},
   cache_index_and_filter_blocks |-> {"bb"}, statistics |-> {"stat"},
   low_pri |-> {"lowpri"}]

(* Parsing disturbs nothing it was not asked to: an option differs from     *)
(* what the DBEnv defaults make it only if a flag it depends on is given.   *)
OnlyGivenFlagsMatter ==
  Configured =>
    \A o \in DOMAIN options :
      options[o] # ConfiguredFrom(Defaults, 0)[o] =>
        o \in DOMAIN DependsOn /\ DependsOn[o] \cap matched # {}

(* The product that GetBufferSize takes does not fit an unsigned int.       *)
Overflows(pages, entries, size) ==
  pages * entries \notin UInts \/ pages * entries * size \notin UInts

(* The write buffer is smaller than one of its pages only if it was set     *)
(* with -M, if it has no pages, or if the product of the three sizes wraps  *)
(* around before it is widened (GetBufferSize).                             *)
BufferHoldsPage ==
  Configured /\ options.block_size > options.write_buffer_size =>
    \/ env.buffer_size_ # 0
    \/ env.buffer_size_in_pages = 0
    \/ Overflows(env.buffer_size_in_pages, env.entries_per_page, env.entry_size)

(* The setup that the log shows with -V is the one the database is opened   *)
(* with.  Its columns are misleading in six ways only: P, B and E are not   *)
(* those of the buffer if its size comes from -M or their product does not  *)
(* fit an unsigned int; nor are B and E those of a block if theirs does     *)
(* not; a style or a priority with no case is shown by its number and       *)
(* RocksDB's default is in force; a negative -M shows a negative file_size; *)
(* a cache whose bytes are negative or do not fit an int has another        *)
(* capacity; and 0 bits per key means no filter.                            *)
SetupTellsOptions ==
  log.setup # NoRow =>
    LET row == log.setup
    IN  /\ row.cmpt_sty \in DOMAIN CompactionStyles =>
             CompactionStyles[row.cmpt_sty] = options.compaction_style
        /\ row.cmpt_pri \in DOMAIN CompactionPris =>
             CompactionPris[row.cmpt_pri] = options.compaction_pri
        /\ row.T = options.max_bytes_for_level_multiplier
        /\ row.M = options.write_buffer_size
        /\ \/ Given("M") /\ env.buffer_size_ # 0
           \/ Overflows(row.P, row.B, row.E)
           \/ row.P * row.B * row.E = options.write_buffer_size
        /\ row.B * row.E \in UInts => row.B * row.E = options.block_size
        /\ row.L1_size = options.max_bytes_for_level_base
        /\ row.file_size # options.target_file_size_base =>
             row.file_size < 0 /\ Given("M") /\ value.M < 0
        /\ row.blk_cch * Megabyte \in 1 .. 2 ^ (UIntBits - 1) - 1 =>
             options.block_cache = {row.blk_cch * Megabyte}
        /\ options.block_cache = {} <=> row.blk_cch = 0
        /\ options.filter_policy = IF row.BPK = 0 THEN {} ELSE {row.BPK}

Sections == {"Rocksdb Stats", "Perf Context", "IO Stats Context"}

(* Some counter of the section counts.                                      *)
Measured(section) ==
  CASE section = "Rocksdb Stats" -> options.statistics = "All"
    [] section = "Perf Context" -> perf.level # "Disable"
    [] section = "IO Stats Context" -> perf.level # "Disable" /\ perf.iostats

(* The report at the end of a run shows what RocksDB was measuring while it *)
(* ran: no section of counters that were off, times and levels included.    *)
(* What was measured is shown, but for one case: with --iostat and without  *)
(* --perf the level is kEnableCount, at which the perf context counts too,  *)
(* and it is not printed.                                                   *)
PrintedWasMeasured ==
  [][stmt' = "returned" =>
       /\ \A s \in log'.sections : Measured(s)
       /\ "Perf Context" \in log'.sections =>
            perf.level = "TimeAndCPU" /\ perf.perLevel
       /\ \A s \in Sections \ log'.sections :
            Measured(s) =>
              /\ s = "Perf Context" /\ perf.level = "Count"
              /\ Given("iostat")
              /\ ~ Given("perf") \/ value.perf = 0]_vars

=============================================================================
