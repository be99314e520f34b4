----------------------------- MODULE Speedlink -----------------------------
(***************************************************************************)
(* The speedlink plugin: it keeps a list of servers with their passwords   *)
(* and the fingerprints of their host keys, tests the speed of this host   *)
(* with a program it installs, and that of the servers over SSH.           *)
(*                                                                         *)
(* One mutex is held by a command from its first to its last step, so one  *)
(* runs at a time; failures and restarts come between the steps.  A host   *)
(* key and the key of this installation are numbers, 0 is none; pictures   *)
(* and wording are left out.                                               *)
(***************************************************************************)
EXTENDS Naturals, Sequences, ManagedTool

CONSTANTS
  MaxSl,     \* bound: commands
  SlFaults,  \* bound: failures, restarts, changed host keys
  NoSl,      \* no command runs
  SlHosts,   \* the servers' hosts
  SlWorlds   \* the instances, see SlInit

VARIABLES
  slWorld,
  keyFile,   \* the key on disk; 0 none, Torn a part of one
  lostKeys,  \* how many keys were written over, see LostKey
  masterKey, \* the key in memory
  servers,   \* the list in memory
  stored,    \* the stored list
  promised,      \* the list as the answers to the owner have it
  accepted,  \* [host, key]: the host keys the owner has accepted
  visits,    \* [host, key]: the host keys a test was run at
  hosts,     \* [host -> its host key]
  slTool,    \* the program and its receipt
  slRan,     \* the programs that were run, with their receipts
  seconds,   \* [memory, disk]: the time a test may take
  sl,        \* the command that runs, or NoSl
  up,        \* the plugin has been started
  lapsed,    \* what a failure has put apart, see KeepsItsWord
  slSpent
slVars == <<slWorld, keyFile, lostKeys, masterKey, servers, stored, promised, accepted, visits, hosts, slTool, slRan,
            seconds, sl, up, lapsed, slSpent>>
keys == <<slWorld, keyFile, lostKeys, masterKey>>
lists == <<servers, stored, promised, accepted, lapsed>>
tests == <<visits, slTool, slRan>>

Torn == 1
\* Keys are numbered from 2 as they are made: what a key sealed that was written over stays shut.
LostKey(key) == key \in 2 .. lostKeys + 1
NewKey(lost) == lost + 2
Servers == [name : STRING, host : SlHosts, method : STRING, key : Nat, pin : Nat]
\* Receipts are the plugin's own; commands and files have been parsed.
ASSUME SlAssumption == \A world \in SlWorlds :
  /\ world \in [legacy : Seq([name : STRING, host : SlHosts, method : STRING]), documents : SUBSET Seq(Servers),
               tool : {world.tool}, system : BOOLEAN, commands : {world.commands}]
  /\ world.tool = Managed(world.tool.bin, world.tool.receipt) /\ world.tool.receipt \in {"speedtest", NoTool}
  /\ \A c \in world.commands :
       /\ c.kind \in {"add", "del", "rename", "timeout", "backup", "restore", "all", "local"}
       /\ c.kind \in {"add", "rename"} => c.name \in STRING
       /\ c.kind = "add" => c.host \in SlHosts /\ c.method \in STRING
Server(name, host, method, key, pin) ==
  [name |-> name, host |-> host, method |-> method, key |-> key, pin |-> pin]
PinsOf(list) == {[host |-> list[i].host, key |-> list[i].pin] : i \in DOMAIN list}
SlAt(at) == sl # NoSl /\ sl.at = at
SlFine == UNCHANGED slSpent
SlFault == slSpent.faults < SlFaults /\ slSpent' = [slSpent EXCEPT !.faults = @ + 1]
SlGo(at) == sl' = [sl EXCEPT !.at = at]
SlBegin(kind) == [cmd |-> [kind |-> kind], at |-> kind, pin |-> 0, next |-> 1]

\* world: [legacy, documents, tool, system, commands]: the predecessor's
\* servers, backups that lie in the chat, a file in the plugin's directory, a
\* program in the PATH or none
SlInit(world) ==
  /\ slWorld = world /\ keyFile = 0 /\ lostKeys = 0 /\ masterKey = 0 /\ servers = <<>> /\ stored = <<>> /\ promised = <<>>
  /\ accepted = {} /\ visits = {} /\ hosts = [h \in SlHosts |-> 1] /\ slTool = world.tool
  /\ slRan = {} /\ seconds = [memory |-> 300, disk |-> 300] /\ sl = SlBegin("key") /\ up = FALSE
  /\ lapsed = {} /\ slSpent = [orders |-> 0, faults |-> 0]
-----------------------------------------------------------------------------
(* The start: the key, the stored servers, and the predecessor's when      *)
(* there are none.                                                         *)

LoadKey ==
  /\ SlAt("key") /\ keyFile \notin {0, Torn} /\ masterKey' = keyFile /\ SlGo("settings") /\ SlFine
  /\ UNCHANGED <<slWorld, keyFile, lostKeys, lists, tests, hosts, seconds, up>>
KeyInvalid ==
  /\ SlAt("key") /\ keyFile = Torn /\ sl' = NoSl /\ SlFine
  /\ UNCHANGED <<keys, lists, tests, hosts, seconds, up>>
\* A key is made where none can be read, whatever the reason, and written over what is there.
CreateKey ==
  /\ SlAt("key") /\ (IF keyFile = 0 THEN SlFine ELSE SlFault)
  /\ lostKeys' = lostKeys + (IF keyFile \in {0, Torn} THEN 0 ELSE 1)
  /\ keyFile' = NewKey(lostKeys') /\ masterKey' = keyFile' /\ SlGo("settings")
  /\ UNCHANGED <<slWorld, lists, tests, hosts, seconds, up>>
\* The writing fails in its middle, and with it the start.
KeyTorn ==
  /\ SlAt("key") /\ SlFault /\ keyFile' = Torn /\ sl' = NoSl
  /\ lostKeys' = lostKeys + (IF keyFile \in {0, Torn} THEN 0 ELSE 1)
  /\ UNCHANGED <<slWorld, masterKey, lists, tests, hosts, seconds, up>>
\* A time that cannot be read stays the program's own.
LoadTimeout ==
  /\ SlAt("settings") /\ SlGo("load")
  /\ \/ SlFine /\ seconds' = [seconds EXCEPT !.memory = seconds.disk] /\ lapsed' = lapsed \ {"seconds"}
     \/ SlFault /\ UNCHANGED seconds /\ lapsed' = lapsed \cup {"seconds"}
  /\ UNCHANGED <<keys, servers, stored, promised, accepted, tests, hosts, up>>
\* A read that fails counts as no servers.
LoadServers ==
  /\ SlAt("load") /\ SlGo("migrate")
  /\ \/ SlFine /\ servers' = stored /\ lapsed' = lapsed \ {"servers"}
     \/ SlFault /\ servers' = <<>> /\ lapsed' = lapsed \cup {"servers"}
  /\ UNCHANGED <<keys, stored, promised, accepted, tests, hosts, seconds, up>>
\* The passwords are sealed anew, and there is no fingerprint yet.
MigratedServer(s) == Server(s.name, s.host, s.method, IF s.method = "password" THEN masterKey ELSE 0, 0)
Imports ==
  /\ stored' = servers'
  /\ IF slSpent.orders = 0 THEN promised' = servers' ELSE UNCHANGED promised
  /\ lapsed' = (lapsed \ {"servers"}) \cup (IF slSpent.orders = 0 THEN {} ELSE {"answers"})
\* A write whose answer is lost may have been made, here and below.
MigrateLegacy ==
  /\ SlAt("migrate") /\ sl' = NoSl
  /\ IF servers # <<>> \/ slWorld.legacy = <<>> THEN up' = TRUE /\ SlFine /\ UNCHANGED lists
     ELSE /\ servers' = [i \in DOMAIN slWorld.legacy |-> MigratedServer(slWorld.legacy[i])]
          /\ UNCHANGED accepted
          /\ \/ SlFine /\ up' = TRUE /\ Imports
             \/ SlFault /\ up' = FALSE /\ (Imports \/ UNCHANGED <<stored, promised, lapsed>>)
  /\ UNCHANGED <<keys, tests, hosts, seconds>>
\* The host ends, or starts the plugin again, between any two steps.
SlRestarts ==
  /\ SlFault /\ sl' = SlBegin("key") /\ up' = FALSE /\ servers' = <<>> /\ masterKey' = 0
  /\ seconds' = [seconds EXCEPT !.memory = 300]
  /\ UNCHANGED <<slWorld, keyFile, lostKeys, stored, promised, accepted, lapsed, tests, hosts>>
HostKeyChanges ==
  /\ SlFault /\ \E h \in DOMAIN hosts : hosts' = [hosts EXCEPT ![h] = @ + 1]
  /\ UNCHANGED <<keys, lists, tests, seconds, sl, up>>
-----------------------------------------------------------------------------
(* The list: every change is made in memory and stored as a whole.         *)

SlHandle == \E c \in slWorld.commands :
  /\ up /\ sl = NoSl /\ slSpent.orders < MaxSl
  /\ slSpent' = [slSpent EXCEPT !.orders = @ + 1]
  /\ sl' = [cmd |-> c, at |-> c.kind, pin |-> 0, next |-> 1]
  /\ UNCHANGED <<keys, lists, tests, hosts, seconds, up>>
\* Telegram, the network, the runner or the disk fail before anything is changed.
SlFails ==
  /\ up /\ sl # NoSl /\ SlFault /\ sl' = NoSl
  /\ UNCHANGED <<keys, lists, tests, hosts, seconds, up>>
\* What an answer says of a list that was not the stored one, or was stored and said not to be, is
\* no longer true; a restored list is known as a whole.
Agreed ==
  IF SlAt("restore") THEN lapsed \ {"servers", "answers"}
  ELSE (lapsed \ {"servers"}) \cup (IF "servers" \in lapsed THEN {"answers"} ELSE {})
\* The change is stored and answered, or that fails and memory is what back says.
Stores(list, pins, back) ==
  /\ sl' = NoSl
  /\ \/ /\ SlFine /\ servers' = list /\ stored' = list /\ promised' = list
        /\ accepted' = accepted \cup pins /\ lapsed' = Agreed
     \/ /\ SlFault /\ servers' = back /\ stored' = list
        /\ accepted' = accepted \cup pins /\ lapsed' = lapsed \cup {"servers", "answers"}
        /\ UNCHANGED promised
     \/ /\ SlFault /\ servers' = back /\ lapsed' = lapsed \cup (IF SlAt("del") THEN {"servers"} ELSE {})
        /\ UNCHANGED <<stored, promised, accepted>>
  /\ UNCHANGED <<keys, tests, hosts, seconds, up>>
\* Who adds a server accepts the key it shows.
VerifyFirstConnection ==
  /\ SlAt("add") /\ sl' = [sl EXCEPT !.at = "append", !.pin = hosts[sl.cmd.host]] /\ SlFine
  /\ UNCHANGED <<keys, lists, tests, hosts, seconds, up>>
EncryptCredential(method) == IF method = "password" THEN masterKey ELSE 0
Add ==
  /\ SlAt("append")
  /\ Stores(Append(servers, Server(sl.cmd.name, sl.cmd.host, sl.cmd.method, EncryptCredential(sl.cmd.method), sl.pin)),
            {[host |-> sl.cmd.host, key |-> sl.pin]}, servers)
Without(list, i) == SubSeq(list, 1, i - 1) \o SubSeq(list, i + 1, Len(list))
\* A removal that cannot be stored is not taken back in memory.
RemoveServer ==
  /\ SlAt("del") /\ sl.cmd.index \in DOMAIN servers
  /\ Stores(Without(servers, sl.cmd.index), {}, Without(servers, sl.cmd.index))
Renamed(list, i, name) == [list EXCEPT ![i].name = name]
\* A bug: the new name stays in memory.
NotBack(list, i, name) == Renamed(list, i, name)
NameBack(list, i, name) == list
Rename ==
  /\ SlAt("rename") /\ sl.cmd.index \in DOMAIN servers
  /\ \A i \in DOMAIN servers \ {sl.cmd.index} : servers[i].name # sl.cmd.name
  /\ Stores(Renamed(servers, sl.cmd.index, sl.cmd.name), {}, NameBack(servers, sl.cmd.index, sl.cmd.name))
\* No such server, or the name is taken.
SlRefused ==
  /\ SlAt("del") \/ SlAt("rename")
  /\ \/ sl.cmd.index \notin DOMAIN servers
     \/ SlAt("rename") /\ \E i \in DOMAIN servers \ {sl.cmd.index} : servers[i].name = sl.cmd.name
  /\ sl' = NoSl /\ SlFine /\ UNCHANGED <<keys, lists, tests, hosts, seconds, up>>
\* The time is stored, and then used.
ConfigureTimeout ==
  /\ SlAt("timeout") /\ sl' = NoSl
  /\ \/ SlFine /\ seconds' = [memory |-> sl.cmd.seconds, disk |-> sl.cmd.seconds] /\ lapsed' = lapsed \ {"seconds"}
     \/ SlFault /\ seconds' = [seconds EXCEPT !.disk = sl.cmd.seconds] /\ lapsed' = lapsed \cup {"seconds"}
     \/ SlFault /\ UNCHANGED <<seconds, lapsed>>
  /\ UNCHANGED <<keys, servers, stored, promised, accepted, tests, hosts, up>>
Backup ==
  /\ SlAt("backup") /\ sl' = NoSl /\ SlFine
  /\ slWorld' = [slWorld EXCEPT !.documents = @ \cup {servers}]
  /\ UNCHANGED <<keyFile, lostKeys, masterKey, lists, tests, hosts, seconds, up>>
\* A bug: a backup of another installation is taken as it is.
NotTried(s) == TRUE
Decrypts(s) == s.method = "password" => s.key = masterKey
SlRestore == \E document \in slWorld.documents :
  /\ SlAt("restore")
  /\ IF \A i \in DOMAIN document : Decrypts(document[i])
     THEN Stores(document, PinsOf(document), servers)
     ELSE sl' = NoSl /\ SlFine /\ UNCHANGED <<keys, lists, tests, hosts, seconds, up>>
-----------------------------------------------------------------------------
(* The tests of the servers, one after the other.                          *)

\* A bug: any host key will do.
AnyHost(s) == TRUE
Pinned(s) == s.pin # 0 /\ s.pin = hosts[s.host]
RunRemote ==
  /\ SlAt("all") /\ sl.next \in DOMAIN servers
  /\ LET s == servers[sl.next] IN
       visits' = visits \cup (IF Decrypts(s) /\ Pinned(s) THEN {[host |-> s.host, key |-> hosts[s.host]]} ELSE {})
  /\ sl' = [sl EXCEPT !.next = @ + 1] /\ SlFine
  /\ UNCHANGED <<keys, lists, slTool, slRan, hosts, seconds, up>>
RunRemoteDone ==
  /\ SlAt("all") /\ sl.next \notin DOMAIN servers /\ sl' = NoSl /\ SlFine
  /\ UNCHANGED <<keys, lists, tests, hosts, seconds, up>>
-----------------------------------------------------------------------------
(* The test of this host: the program is found, or installed; also when    *)
(* one that cannot be trusted cannot be moved away.                        *)

\* A bug: a file that is there is good enough.
AnyTool(t) == Executable(t)
Genuine(t) == Verify(t)
FindSpeedtest ==
  /\ SlAt("local")
  /\ \/ Genuine(slTool) /\ SlGo("run") /\ SlFine /\ UNCHANGED slTool
     \/ ~Executable(slTool) /\ SlGo("look in PATH") /\ SlFine /\ UNCHANGED slTool
     \/ Executable(slTool) /\ ~Genuine(slTool)
        /\ \/ SlGo("unreceipt") /\ SlFine /\ slTool' = Quarantine(slTool)
           \/ SlGo("install") /\ SlFault /\ UNCHANGED slTool
  /\ UNCHANGED <<keys, lists, visits, slRan, hosts, seconds, up>>
RemoveOldReceipt ==
  /\ SlAt("unreceipt") /\ SlGo("look in PATH") /\ slTool' = RemoveReceipt(slTool) /\ SlFine
  /\ UNCHANGED <<keys, lists, visits, slRan, hosts, seconds, up>>
LookForSpeedtest ==
  /\ SlAt("look in PATH") /\ SlGo(IF slWorld.system THEN "run system" ELSE "install") /\ SlFine
  /\ UNCHANGED <<keys, lists, tests, hosts, seconds, up>>
\* The archive names what is in it; it goes in place of the old program.
ExtractSpeedtest ==
  /\ SlAt("install") /\ SlGo("receipt") /\ slTool' = [slTool EXCEPT !.bin = "speedtest"] /\ SlFine
  /\ UNCHANGED <<keys, lists, visits, slRan, hosts, seconds, up>>
InstallSpeedtest ==
  /\ SlAt("receipt")
  /\ \/ SlFine /\ slTool' = WriteReceipt(slTool, slTool.bin) /\ SlGo("run")
     \/ SlFault /\ slTool' = Quarantine(slTool) /\ sl' = NoSl
  /\ UNCHANGED <<keys, lists, visits, slRan, hosts, seconds, up>>
RunLocal ==
  /\ SlAt("run") \/ SlAt("run system")
  /\ slRan' = slRan \cup {IF SlAt("run") THEN slTool ELSE Managed("system", "system")} /\ sl' = NoSl /\ SlFine
  /\ UNCHANGED <<keys, lists, visits, slTool, hosts, seconds, up>>

SlNext ==
  \/ LoadKey \/ KeyInvalid \/ CreateKey \/ KeyTorn \/ LoadTimeout \/ LoadServers \/ MigrateLegacy \/ SlRestarts \/ HostKeyChanges
  \/ SlHandle \/ SlFails \/ VerifyFirstConnection \/ Add \/ RemoveServer \/ Rename \/ SlRefused \/ ConfigureTimeout
  \/ Backup \/ SlRestore \/ RunRemote \/ RunRemoteDone \/ FindSpeedtest \/ RemoveOldReceipt \/ LookForSpeedtest
  \/ ExtractSpeedtest \/ InstallSpeedtest \/ RunLocal
SlSpec == (\E world \in SlWorlds : SlInit(world)) /\ [][SlNext]_slVars
-----------------------------------------------------------------------------
(* No test is run at a host whose key the owner has not accepted, by       *)
(* adding the server or by restoring a backup that holds it: not after a   *)
(* host key changed, and not for the servers of the predecessor.           *)
PinnedHosts == visits \subseteq accepted

(* Whatever was added, imported or restored, each stored password can be   *)
(* opened with the key on disk, and so can the next one; except those a    *)
(* start has shut for good that could not read the key and made another.   *)
Readable ==
  /\ \A i \in DOMAIN stored : stored[i].method = "password" => stored[i].key = keyFile \/ LostKey(stored[i].key)
  /\ up => masterKey = keyFile

(* Between commands memory, disk and the answers have the same servers and *)
(* the same time, over failures and restarts.  A read that failed at the   *)
(* start, a removal that could not be stored and a lost answer of a write  *)
(* put memory and disk apart, until the next change that is stored or      *)
(* start that reads; the answers are wrong from then on, as they are when  *)
(* the import was made again because the list had become empty, until a    *)
(* backup is restored.                                                     *)
KeepsItsWord == (up /\ sl = NoSl) =>
  /\ "seconds" \in lapsed \/ seconds.memory = seconds.disk
  /\ "servers" \in lapsed \/ servers = stored
  /\ "answers" \in lapsed \/ stored = promised

(* A file put in the plugin's directory, and one that lost its receipt in  *)
(* a crash, are never run: only what was installed with its receipt and    *)
(* what the owner has in his PATH.                                         *)
GenuineRuns == slRan \subseteq {Managed(program, program) : program \in {"speedtest", "system"}}

(* The four together: what the services run checks of this plugin.         *)
SpeedlinkIsSound == PinnedHosts /\ Readable /\ KeepsItsWord /\ GenuineRuns
=============================================================================
