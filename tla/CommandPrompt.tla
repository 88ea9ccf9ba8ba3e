---------------------------- MODULE CommandPrompt ----------------------------
(***************************************************************************)
(* The command prompt: kern/cmd/command_prompt.c looks a command up, or    *)
(* suggests the commands that begin with what was typed; the handlers of   *)
(* kern/cmd/commands.c change the kernel's settings, choose a test, or     *)
(* check the sizes of a new environment.                                   *)
(*                                                                         *)
(* A name is the sequence of its letters, an argument a text with the      *)
(* number that strtol() reads in it, 0 if it is none. What the commands    *)
(* print is left out, except for the names the prompt suggests and the     *)
(* setting a "?" command shows. The commands on environments that exist    *)
(* are in Scheduler.                                                       *)
(***************************************************************************)
EXTENDS Integers, Sequences, FiniteSets, SequencesExt

CONSTANTS
  Names,            \* commands[]: [name |-> a string, letters |-> its letters]
  NUL,              \* the character behind a name
  Letters,          \* what may lie in memory behind it
  Lines,            \* what is typed: [word |-> letters, args |-> arguments]
  Answers,          \* what is typed when buff asks for a length
  MAX_ARGUMENTS,
  PWS_MAX_SIZE,     \* __PWS_MAX_SIZE
  DEFAULT_PERCENT,  \* DEFAULT_PERCENT_OF_PAGE_WS_TO_REMOVE
  UINT32,           \* one more than the largest uint32
  MaxLoaded,        \* bound on the environments created
  MaxCommands       \* bound on the lines typed

ASSUME PromptAssumption ==
  /\ \A c \in Names : c.letters \in Seq(STRING) /\ NUL \notin ToSet(c.letters)
  /\ \A l \in Lines : /\ l.word \in Seq(STRING) /\ NUL \notin ToSet(l.word)
                      /\ l.args \in Seq([text : STRING, number : Int])
  /\ Answers \subseteq [text : STRING, number : Int]
  /\ MAX_ARGUMENTS \in Nat \ {0, 1} /\ PWS_MAX_SIZE \in Nat /\ UINT32 \in Nat \ {0}
  /\ DEFAULT_PERCENT \in 1 .. 100

VARIABLES
  settings,     \* the variables of fault_handler.c, kheap.c and user_environment.c
  loaded,       \* the environments that CreateEnv() made
  reply,        \* what the last command did
  typed         \* the number of lines typed

commandPrompt == <<settings, loaded, reply, typed>>

strtol(arg) == arg.number
uint32(n) == n % UINT32

Nothing == [word |-> <<>>, listed |-> {}, result |-> "done",
            shown |-> "none", test |-> "none"]

(***************************************************************************)
(* FOS_initialize() sets the defaults before the first prompt.             *)
(***************************************************************************)
CommandPromptInit ==
  /\ settings = [rep |-> "CLOCK", sweeps |-> 0, uheap |-> "FIRSTFIT",
                 kheap |-> "FIRSTFIT", buffering |-> FALSE, modified |-> FALSE,
                 length |-> 1000]
  /\ loaded = {}
  /\ reply = Nothing
  /\ typed = 0

(***************************************************************************)
(* A handler returns what it changes: the settings, the environments, and  *)
(* how it ended.  A missing argument is a NULL pointer, and strtol(NULL)   *)
(* faults at the prompt: the fault repeats until fault_handler() panics,   *)
(* which returns to the prompt.                                            *)
(***************************************************************************)
Outcome(s, l, result, shown, test) ==
  [settings |-> s, loaded |-> l, result |-> result, shown |-> shown, test |-> test]
sets(s) == Outcome(s, loaded, "done", "none", "none")
refuses == Outcome(settings, loaded, "refused", "none", "none")
panics == Outcome(settings, loaded, "panicked", "none", "none")
shows(what) == Outcome(settings, loaded, "done", what, "none")
tests(test) == Outcome(settings, loaded, "done", "none", test)
-----------------------------------------------------------------------------
(***************************************************************************)
(* Page replacement: lru with its type, nclock with its sweeps, and the    *)
(* commands that take no argument.                                         *)
(***************************************************************************)
LRU_TYPE == <<"LRU_TIME_APPROX", "LRU_LISTS_APPROX">>

command_set_page_rep_LRU(args) ==
  IF args = <<>> \/ strtol(args[1]) \notin DOMAIN LRU_TYPE THEN refuses
  ELSE sets([settings EXCEPT !.rep = LRU_TYPE[strtol(args[1])]])

command_set_page_rep_nthCLOCK(args) ==
  IF args = <<>> THEN panics
  ELSE sets([settings EXCEPT !.rep = "NchanceCLOCK", !.sweeps = strtol(args[1])])

page_rep == [fifo |-> "FIFO", clock |-> "CLOCK", modifiedclock |-> "MODIFIEDCLOCK"]

command_print_page_rep ==
  shows(IF settings.rep = "NchanceCLOCK" THEN "UNDEFINED" ELSE settings.rep)

(***************************************************************************)
(* Placement in the user heap and in the kernel heap.                      *)
(***************************************************************************)
uheap_plac == [uhfirstfit |-> "FIRSTFIT", uhbestfit |-> "BESTFIT",
               uhnextfit |-> "NEXTFIT", uhworstfit |-> "WORSTFIT"]
kheap_plac == [khcontalloc |-> "CONTALLOC", khfirstfit |-> "FIRSTFIT",
               khbestfit |-> "BESTFIT", khnextfit |-> "NEXTFIT",
               khworstfit |-> "WORSTFIT"]
command_print_uheap_plac == shows(settings.uheap)
command_print_kheap_plac == shows(settings.kheap)

(***************************************************************************)
(* Buffering.  buff asks for a length when there is none: the next line is *)
(* read as the answer.                                                     *)
(***************************************************************************)
modified_buffer(on) ==
  IF ~settings.buffering THEN refuses ELSE sets([settings EXCEPT !.modified = on])

disable_buffering_only == sets([settings EXCEPT !.buffering = FALSE])
command_disable_buffering ==
  sets([settings EXCEPT !.buffering = FALSE, !.modified = FALSE])

command_enable_buffering(answer) ==
  sets([settings EXCEPT
          !.buffering = TRUE, !.modified = TRUE,
          !.length = IF @ = 0 THEN uint32(strtol(answer)) ELSE @])

command_set_modified_buffer_length(args) ==
  IF args = <<>> THEN panics
  ELSE sets([settings EXCEPT !.length = uint32(strtol(args[1]))])
-----------------------------------------------------------------------------
(***************************************************************************)
(* CreateEnv(), for load and run: the arguments after the program's name   *)
(* depend on the replacement algorithm in force.  The sizes are unsigned,  *)
(* so that a working set of 0 admits every second list.                    *)
(***************************************************************************)
lists == settings.rep = "LRU_LISTS_APPROX"

LRU_second_list(ws, second) == lists => second <= uint32(ws - 1)

created(ws, second, percent) ==
  [ws |-> ws, lists |-> lists, second |-> IF lists THEN second ELSE 0,
   percent |-> IF percent = 0 THEN DEFAULT_PERCENT ELSE percent]

accepted(ws, second, percent) ==
  IF ws > PWS_MAX_SIZE \/ ~LRU_second_list(ws, second) THEN refuses
  ELSE IF percent > 100 THEN panics       \* an assert()
  ELSE Outcome(settings, loaded \cup {created(ws, second, percent)}, "done",
               "none", "none")

CreateEnv(args) ==
  LET number(i) == uint32(strtol(args[i]))
  IN CASE Len(args) = 4 /\ lists -> accepted(number(2), number(3), number(4))
       [] Len(args) = 3 /\ lists -> accepted(number(2), number(3), 0)
       [] Len(args) = 3 /\ ~lists -> accepted(number(2), 0, number(3))
       [] Len(args) = 2 /\ ~lists -> accepted(number(2), 0, 0)
       [] OTHER -> refuses

(***************************************************************************)
(* schedMLFQ deletes the ready queues and panics; the panic enters the     *)
(* scheduler, which faults on the queues.  The machine is lost.            *)
(***************************************************************************)
command_sch_MLFQ(args) ==
  IF args = <<>> THEN panics
  ELSE Outcome(settings, loaded, "crashed", "none", "none")
-----------------------------------------------------------------------------
(***************************************************************************)
(* The commands of the labs that only panic.                               *)
(***************************************************************************)
lab3_lab4_commands == {"ikb", "dkb", "shr", "sm", "sp", "sr", "nr"}
lab5_commands == {"asp", "cfp"}

(***************************************************************************)
(* tstkmalloc and tstkheap choose a test by the placement strategy in      *)
(* force and a number.                                                     *)
(***************************************************************************)
kmalloc_tests ==
  [FIRSTFIT |-> <<"test_kmalloc_firstfit1", "test_kmalloc_firstfit2">>,
   BESTFIT |-> <<"test_kmalloc", "test_kmalloc_bestfit1", "test_kmalloc_bestfit2">>,
   NEXTFIT |-> <<"test_kmalloc", "test_kmalloc_nextfit">>]

kheap_tests ==
  [FIRSTFIT |-> <<"test_kmalloc", "test_kmalloc_firstfit1", "test_kmalloc_firstfit2">>,
   BESTFIT |-> kmalloc_tests.BESTFIT,
   NEXTFIT |-> kmalloc_tests.NEXTFIT]

numbered(table, strategy, n) ==
  IF strategy \notin DOMAIN table THEN "none"
  ELSE IF n \in DOMAIN table[strategy] THEN table[strategy][n] ELSE "none"

command_test_kmalloc(args) ==
  LET n == IF Len(args) = 1 THEN strtol(args[1]) ELSE 0
  IN CASE settings.kheap = "CONTALLOC" -> tests("test_kmalloc")
       [] settings.kheap = "WORSTFIT" -> tests("test_kmalloc_worstfit")
       [] OTHER -> IF n = 0 THEN refuses
                   ELSE tests(numbered(kmalloc_tests, settings.kheap, n))

kfree_test(strategy) ==
  IF strategy \in {"BESTFIT", "FIRSTFIT"} THEN "test_kfree_bestfirstfit"
  ELSE "test_kfree"
command_test_kfree == tests(kfree_test(settings.kheap))

command_test_krealloc ==
  tests(CASE settings.kheap = "NEXTFIT" -> "test_krealloc"
          [] settings.kheap = "BESTFIT" -> "test_krealloc_BF"
          [] OTHER -> "none")

fit == [FF |-> "FIRSTFIT", ff |-> "FIRSTFIT", BF |-> "BESTFIT", bf |-> "BESTFIT",
        NF |-> "NEXTFIT", nf |-> "NEXTFIT"]

(***************************************************************************)
(* tstkheap sets the strategy that its first argument names, if it names   *)
(* one, and chooses the test by the strategy that is then in force.  (With *)
(* no argument at all it reads a word that strsplit() never set: such a    *)
(* line is not typed.)                                                     *)
(***************************************************************************)
kheap_test_of(kheap, args) ==
  CASE args[2].text = "kmalloc" -> numbered(kheap_tests, kheap, strtol(args[3]))
    [] args[2].text = "kfree" -> kfree_test(kheap)
    [] args[2].text = "kphysaddr" -> "test_kheap_phys_addr"
    [] args[2].text = "kvirtaddr" -> "test_kheap_virt_addr"
    [] args[2].text = "krealloc" /\ kheap = "BESTFIT" -> "test_krealloc_BF"
    [] OTHER -> "none"

command_test_kheap(args) ==
  LET kheap == IF args[1].text \in DOMAIN fit THEN fit[args[1].text] ELSE settings.kheap
  IN IF Len(args) < 2 THEN panics
     ELSE IF Len(args) # (IF args[2].text = "kmalloc" THEN 3 ELSE 2) THEN refuses
     ELSE Outcome([settings EXCEPT !.kheap = kheap], loaded, "done", "none",
                  kheap_test_of(kheap, args))

(***************************************************************************)
(* The other test commands: by a word, or always the same test.            *)
(***************************************************************************)
lists_tests ==
  [init |-> "test_initialize_MemBlocksList", insrt |-> "test_insert_sorted_allocList",
   find |-> "test_find_block", FF |-> "test_alloc_block_FF",
   ff |-> "test_alloc_block_FF", BF |-> "test_alloc_block_BF",
   bf |-> "test_alloc_block_BF", NF |-> "test_alloc_block_NF",
   nf |-> "test_alloc_block_NF", MERGE |-> "test_insert_sorted_with_merge_freeList",
   merge |-> "test_insert_sorted_with_merge_freeList"]
chunk_tests ==
  [cutpaste |-> "test_cut_paste_pages", copypaste |-> "test_copy_paste_chunk",
   share |-> "test_share_chunk", allocate |-> "test_allocate_chunk",
   required_space |-> "test_calculate_required_frames",
   allocated_space |-> "test_calculate_allocated_space"]
paging_tests ==
  [scperm1 |-> "test_pt_set_page_permissions",
   scperm2 |-> "test_pt_set_page_permissions_invalid_va",
   getperm |-> "test_pt_get_page_permissions",
   clear1 |-> "test_pt_clear_page_table_entry",
   clear2 |-> "test_pt_clear_page_table_entry_invalid_va",
   v2p |-> "test_virtual_to_physical"]

by_word(table, args) ==
  IF Len(args) # 1 THEN refuses
  ELSE tests(IF args[1].text \in DOMAIN table THEN table[args[1].text] ELSE "none")

single_tests ==
  [tstkphysaddr |-> "test_kheap_phys_addr", tstkvirtaddr |-> "test_kheap_virt_addr",
   tst3functions |-> "test_three_creation_functions",
   tstkfreeall |-> "test_kfreeall", tstkexpand |-> "test_kexpand",
   tstkshrink |-> "test_kshrink", tstkfreelast |-> "test_kfreelast",
   tstpriority1 |-> "test_priority_normal_and_higher",
   tstpriority2 |-> "test_priority_normal_and_lower"]
-----------------------------------------------------------------------------
(***************************************************************************)
(* commands[]: which handler runs.  help, kernel_info, meminfo, ft and     *)
(* modbufflength? change nothing.                                          *)
(***************************************************************************)
commands(name, args, answer) ==
  CASE name \in DOMAIN page_rep -> sets([settings EXCEPT !.rep = page_rep[name]])
    [] name \in DOMAIN uheap_plac -> sets([settings EXCEPT !.uheap = uheap_plac[name]])
    [] name \in DOMAIN kheap_plac -> sets([settings EXCEPT !.kheap = kheap_plac[name]])
    [] name \in DOMAIN single_tests -> tests(single_tests[name])
    [] name \in lab3_lab4_commands \cup lab5_commands -> panics
    [] name = "lru" -> command_set_page_rep_LRU(args)
    [] name = "nclock" -> command_set_page_rep_nthCLOCK(args)
    [] name = "rep?" -> command_print_page_rep
    [] name = "uheap?" -> command_print_uheap_plac
    [] name = "kheap?" -> command_print_kheap_plac
    [] name = "nomodbuff" -> modified_buffer(FALSE)
    [] name = "modbuff" -> modified_buffer(TRUE)
    [] name = "nobuff" -> command_disable_buffering
    [] name = "buff" -> command_enable_buffering(answer)
    [] name = "modbufflength" -> command_set_modified_buffer_length(args)
    [] name \in {"load", "run"} -> CreateEnv(args)
    [] name = "schedMLFQ" -> command_sch_MLFQ(args)
    [] name = "tstkmalloc" -> command_test_kmalloc(args)
    [] name = "tstkfree" -> command_test_kfree
    [] name = "tstkrealloc" -> command_test_krealloc
    [] name = "tstkheap" -> command_test_kheap(args)
    [] name = "tstlsts" -> by_word(lists_tests, args)
    [] name = "tstchunks" -> by_word(chunk_tests, args)
    [] name = "tstpg" -> by_word(paging_tests, args)
    [] OTHER -> sets(settings)

(***************************************************************************)
(* strsplit() keeps at most MAX_ARGUMENTS - 1 words, the command included. *)
(***************************************************************************)
strsplit(words) ==
  IF Len(words) < MAX_ARGUMENTS - 1 THEN words ELSE SubSeq(words, 1, MAX_ARGUMENTS - 2)

(***************************************************************************)
(* The name of a command in memory, read from its start: behind its NUL    *)
(* lies whatever the linker put there.                                     *)
(***************************************************************************)
character(c, behind, j) ==
  CASE j <= Len(c.letters) -> c.letters[j]
    [] j = Len(c.letters) + 1 -> NUL
    [] OTHER -> behind

matches(word, behind, c) ==
  Cardinality({j \in DOMAIN word : word[j] = character(c, behind, j)}) = Len(word)

(***************************************************************************)
(* execute_command(): the command whose name was typed runs; if there is   *)
(* none, the names that match are listed.                                  *)
(***************************************************************************)
found(word) == {c \in Names : c.letters = word}

execute_command(line) ==
  \/ \E c \in found(line.word), answer \in Answers :
       LET o == commands(c.name, strsplit(line.args), answer)
       IN /\ settings' = o.settings
          /\ loaded' = o.loaded
          /\ reply' = [word |-> line.word, listed |-> {}, result |-> o.result,
                       shown |-> o.shown, test |-> o.test]
  \/ /\ found(line.word) = {}
     /\ \E behind \in Letters :
          reply' = [Nothing EXCEPT
                      !.word = line.word,
                      !.listed = {c \in Names : matches(line.word, behind, c)},
                      !.result = "unknown"]
     /\ UNCHANGED <<settings, loaded>>

run_command_prompt ==
  /\ reply.result # "crashed"
  /\ typed < MaxCommands
  /\ \E line \in Lines : execute_command(line)
  /\ Cardinality(loaded') <= MaxLoaded
  /\ typed' = typed + 1
-----------------------------------------------------------------------------
PromptTypeOK ==
  /\ settings \in [rep : {"UNDEFINED", "NchanceCLOCK"} \cup ToSet(LRU_TYPE)
                         \cup {page_rep[n] : n \in DOMAIN page_rep},
                   sweeps : Int,
                   uheap : {uheap_plac[n] : n \in DOMAIN uheap_plac},
                   kheap : {kheap_plac[n] : n \in DOMAIN kheap_plac},
                   buffering : BOOLEAN, modified : BOOLEAN, length : 0 .. UINT32 - 1]
  /\ typed \in 0 .. MaxCommands

(***************************************************************************)
(* The prompt lists exactly the commands that begin with what was typed,   *)
(* although its comparison reads behind the end of shorter names.          *)
(***************************************************************************)
SuggestionsAreCompletions ==
  reply.result = "unknown" =>
    reply.listed = {c \in Names : IsPrefix(reply.word, c.letters)}

(***************************************************************************)
(* No sequence of buff, nobuff, modbuff and nomodbuff leaves the modified  *)
(* buffer enabled without buffering: the two flags are set by different    *)
(* commands, and the fault handler tests only the first.                   *)
(***************************************************************************)
ModifiedNeedsBuffering == settings.modified => settings.buffering

(***************************************************************************)
(* Whatever the order of lru, clock, load and run, an environment with     *)
(* lists has a second list smaller than its working set, unless its        *)
(* working set is 0, and every percentage is between 1 and 100.            *)
(***************************************************************************)
SizesAccepted ==
  \A e \in loaded :
    /\ e.ws <= PWS_MAX_SIZE /\ e.percent \in 1 .. 100
    /\ e.lists /\ e.ws > 0 => e.second < e.ws

(***************************************************************************)
(* A test with expectations of one placement strategy runs only while the  *)
(* kernel heap uses that strategy, also when the command has just set it.  *)
(***************************************************************************)
Expects ==
  [test_kmalloc_firstfit1 |-> {"FIRSTFIT"}, test_kmalloc_firstfit2 |-> {"FIRSTFIT"},
   test_kmalloc_bestfit1 |-> {"BESTFIT"}, test_kmalloc_bestfit2 |-> {"BESTFIT"},
   test_kmalloc_nextfit |-> {"NEXTFIT"}, test_kmalloc_worstfit |-> {"WORSTFIT"},
   test_kfree_bestfirstfit |-> {"FIRSTFIT", "BESTFIT"},
   test_krealloc |-> {"NEXTFIT"}, test_krealloc_BF |-> {"BESTFIT"}]
TestsFitStrategy ==
  reply.test \in DOMAIN Expects => settings.kheap \in Expects[reply.test]

(***************************************************************************)
(* What the prompt suggests is right, and the settings that commands leave *)
(* to each other fit, in whatever order the commands come: the flags of    *)
(* buffering, the sizes with which environments are created, and the       *)
(* strategy for which a test was written.                                  *)
(***************************************************************************)
PromptConsistent ==
  SuggestionsAreCompletions /\ ModifiedNeedsBuffering /\ SizesAccepted /\ TestsFitStrategy
=============================================================================
