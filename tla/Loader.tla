-------------------------------- MODULE Loader --------------------------------
(***************************************************************************)
(* How a program's file is read: process_load_data, process_load_elf and   *)
(* process_load_binary of src/task/process.c and elf_load of               *)
(* src/loader/formats/elfloader.c as callers of the file functions, which  *)
(* are the actions of FileTable.  The memory they take is in               *)
(* ProcessMemory, what they make of an ELF file in AddressSpace.           *)
(*                                                                         *)
(* The kernel is not interrupted: no other call comes between the steps of *)
(* a load.  Other code may have files open when loads begin.               *)
(***************************************************************************)
EXTENDS FileTable

CONSTANTS
  Programs,  \* the paths of programs
  ElfNames   \* the names whose files pass elf_validate_loaded

ASSUME ProgramsAssumption ==
  \A p \in Programs : p \in Seq({p[k] : k \in DOMAIN p})

INVALID_FORMAT_ERROR == 9

VARIABLES
  step,    \* "calls" before the first load, "idle" between loads
  fd,      \* the variable of elf_load and process_load_binary
  size,    \* stat.filesize
  result,  \* their res
  name,    \* the file's path
  mine     \* history: indexes that loads have opened and nobody has closed

load == <<step, fd, size, result, name, mine>>

LoaderInit ==
  /\ Init
  /\ step = "calls"
  /\ fd = 0 /\ size = 0 /\ result = ALL_OK /\ name = << >>
  /\ mine = {}

Goto(from, to) == step = from /\ step' = to

Keep == mine' = mine /\ name' = name

\* fopen for both loaders.
OpenProgram(from, to) ==
  /\ step \in from /\ step' = to
  /\ fopen(0, name', "r")
  /\ mine' = mine \cup ({res'} \cap Index)
  /\ size' = 0
  /\ UNCHANGED <<fd, result>>

process_load_data ==
  name' \in Programs /\ OpenProgram({"calls", "idle"}, "elf_opened")

\* elf_load: "if (res <= 0)".
elf_open_fails ==
  /\ Goto("elf_opened", "elf_out") /\ Keep
  /\ res <= 0
  /\ fd' = 0 /\ result' = -IO_ERROR
  /\ UNCHANGED <<vars, size>>

elf_stat ==
  /\ Goto("elf_opened", "elf_stat") /\ Keep
  /\ res > 0
  /\ fd' = res /\ fstat(res)
  /\ UNCHANGED <<size, result>>

elf_stat_fails ==
  /\ Goto("elf_stat", "elf_out") /\ Keep
  /\ res < 0
  /\ result' = res
  /\ UNCHANGED <<vars, fd, size>>

elf_read ==
  /\ Goto("elf_stat", "elf_read") /\ Keep
  /\ res >= 0
  /\ size' = res /\ fread(fd, res)
  /\ UNCHANGED <<fd, result>>

\* elf_process_loaded, if there is something to look at.
elf_process_loaded ==
  /\ Goto("elf_read", "elf_out") /\ Keep
  /\ result' = IF res < 0 THEN res
               ELSE IF name[1] \in ElfNames THEN ALL_OK
               ELSE -INVALID_FORMAT_ERROR
  /\ UNCHANGED <<vars, fd, size>>

\* Mutant: only a file that was read is closed.
CloseProgram_read(from, to) ==
  /\ Goto(from, to) /\ name' = name
  /\ IF result = -INVALID_FORMAT_ERROR THEN UNCHANGED vars ELSE fclose(fd)
  /\ mine' = {i \in mine : file_descriptors'[i] # NoDescriptor}
  /\ UNCHANGED <<fd, size, result>>

\* "out:" of both loaders, on every path.
CloseProgram(from, to) ==
  /\ Goto(from, to) /\ name' = name
  /\ fclose(fd)
  /\ mine' = {i \in mine : file_descriptors'[i] # NoDescriptor}
  /\ UNCHANGED <<fd, size, result>>

elf_out ==
  CloseProgram("elf_out",
               IF result = -INVALID_FORMAT_ERROR THEN "binary" ELSE "idle")

\* process_load_binary reads the file again.
binary_open == name' = name /\ OpenProgram({"binary"}, "binary_opened")

\* "if (!fd)": an error below 0 would be taken for an index.  After elf_load had
\* the file open neither that nor an error of fstat is left to happen.
binary_stat ==
  /\ step = "binary_opened" /\ Keep
  /\ fd' = res
  /\ IF res = 0
     THEN step' = "binary_out" /\ result' = -IO_ERROR /\ UNCHANGED vars
     ELSE step' = "binary_stat" /\ fstat(res) /\ UNCHANGED result
  /\ UNCHANGED size

\* kernel_zalloc may have no block for the file.
binary_no_memory ==
  /\ Goto("binary_stat", "binary_out") /\ Keep
  /\ result' = IF res < 0 THEN res ELSE -NO_MEMORY_ERROR
  /\ UNCHANGED <<vars, fd, size>>

binary_read ==
  /\ Goto("binary_stat", "binary_read") /\ Keep
  /\ res >= 0
  /\ size' = res /\ fread(fd, res)
  /\ UNCHANGED <<fd, result>>

binary_loaded ==
  /\ Goto("binary_read", "binary_out") /\ Keep
  /\ result' = IF res = 1 THEN ALL_OK ELSE -IO_ERROR
  /\ UNCHANGED <<vars, fd, size>>

binary_out == CloseProgram("binary_out", "idle")

Load ==
  \/ process_load_data \/ elf_open_fails \/ elf_stat \/ elf_stat_fails
  \/ elf_read \/ elf_process_loaded \/ elf_out
  \/ binary_open \/ binary_stat \/ binary_no_memory \/ binary_read
  \/ binary_loaded \/ binary_out

\* The kernel goes on without a load; or a file cannot be opened again, since
\* kernel_zalloc has nothing left where its result is not looked at.
Rest == step \in {"idle", "binary"} /\ UNCHANGED <<vars, load>>

LoaderNext ==
  \/ step = "calls" /\ Next /\ UNCHANGED load
  \/ Load
  \/ Rest

LoaderSpec == LoaderInit /\ [][LoaderNext]_<<vars, load>>

------------------------------------------------------------------------------
(* Properties. *)

\* A load, however it ends and however the volume and the table were when it
\* began, leaves no file of its own open, except one that got the last index
\* of the table, which fstat and fclose turn down; of those there is one.  It
\* succeeds only if the volume was found, and the file that was open is named
\* by a path of one part and has something in it; a file without the marks of
\* an ELF file is never refused for its format.
LoadsEndClean ==
  /\ step \in {"calls", "idle"} => mine \subseteq {OS_MAX_FILE_DESCRIPTORS}
  /\ step = "idle" => result # -INVALID_FORMAT_ERROR
  /\ step = "idle" /\ result = ALL_OK =>
       /\ mounted /\ size > 0
       /\ Matches(name[1]) # {}
       /\ Len(pathparser_parse(name)) = 1
==============================================================================
