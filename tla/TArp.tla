-------------------------------- MODULE TArp --------------------------------
(***************************************************************************)
(* The ARP table (core/t_arp.c).  The tcpip task enters what replies say,  *)
(* an access at a time; the main thread prints the table (t_arp_test, in   *)
(* the build with T_TEST_ARP) without a lock.  Sending does not consult    *)
(* the table: get_mac_from_ip answers a fixed address.                     *)
(*                                                                         *)
(* An operator or action that precedes one like it under a name that says  *)
(* what is wrong is a fault the properties are known to find; nothing uses *)
(* it.                                                                     *)
(***************************************************************************)
EXTENDS Naturals

CONSTANTS Macs, Ips,      \* addresses replies may tell
          NoIp,           \* stands for 0 and for 255.255.255.255
          NoMac,          \* an entry never written is zero
          T_ARP_TABLE_SIZE

ASSUME ArpAssumption == T_ARP_TABLE_SIZE \in Nat \ {0}

VARIABLES t_arp_table, table_count,
          entering,    \* the reply in the task's hands, and how far it is
          line,        \* where the main thread is in the table; 0: not printing
          told, printed  \* history: what replies told, the last line printed

arpVars == <<t_arp_table, table_count, entering, line, told, printed>>

Rows    == 1..T_ARP_TABLE_SIZE
NoReply == [step |-> "none", mac |-> NoMac, ip |-> NoIp]

ArpInit ==
  /\ t_arp_table = [r \in Rows |-> [mac |-> NoMac, ip |-> NoIp]]
  /\ table_count = 0
  /\ entering = NoReply
  /\ line = 0 /\ told = {} /\ printed = <<>>

-----------------------------------------------------------------------------
(* t_update_arp_entry in the task.                                          *)

\* A reply for us, unless it tells the any or the broadcast address.
ArpReply(m, i) ==
  /\ entering.step = "none"
  /\ i # NoIp
  /\ entering' = [step |-> "find", mac |-> m, ip |-> i]
  /\ told' = told \cup {<<m, i>>}
  /\ UNCHANGED <<t_arp_table, table_count, line, printed>>

ByAddress(m, i) == {r \in 1..table_count : t_arp_table[r].ip = i}

\* The rows the search accepts: entries are found by hardware address.
Found(m, i) == {r \in 1..table_count : t_arp_table[r].mac = m}

EntryFound ==
  /\ entering.step = "find"
  /\ \E r \in Found(entering.mac, entering.ip) :
       /\ \A q \in Found(entering.mac, entering.ip) : r <= q
       /\ t_arp_table' = [t_arp_table EXCEPT ![r].ip = entering.ip]
  /\ entering' = NoReply
  /\ UNCHANGED <<table_count, line, told, printed>>

FullOverwrites ==
  /\ entering.step = "find" /\ Found(entering.mac, entering.ip) = {}
  /\ table_count = T_ARP_TABLE_SIZE
  /\ t_arp_table' = [t_arp_table EXCEPT ![table_count] = [mac |-> entering.mac, ip |-> entering.ip]]
  /\ entering' = NoReply
  /\ UNCHANGED <<table_count, line, told, printed>>

\* No row is left: an error message, and the reply is forgotten.
TableFull ==
  /\ entering.step = "find" /\ Found(entering.mac, entering.ip) = {}
  /\ table_count = T_ARP_TABLE_SIZE
  /\ entering' = NoReply
  /\ UNCHANGED <<t_arp_table, table_count, line, told, printed>>

EnterIpUnchecked ==
  /\ entering.step = "find" /\ Found(entering.mac, entering.ip) = {}
  /\ t_arp_table' = [t_arp_table EXCEPT ![table_count + 1].ip = entering.ip]
  /\ entering' = [entering EXCEPT !.step = "mac"]
  /\ UNCHANGED <<table_count, line, told, printed>>

CountedFirst ==
  /\ entering.step = "find" /\ Found(entering.mac, entering.ip) = {}
  /\ table_count < T_ARP_TABLE_SIZE
  /\ t_arp_table' = [t_arp_table EXCEPT ![table_count + 1].ip = entering.ip]
  /\ table_count' = table_count + 1
  /\ entering' = [entering EXCEPT !.step = "mac"]
  /\ UNCHANGED <<line, told, printed>>

\* A new row: the IP address ...
EnterIp ==
  /\ entering.step = "find" /\ Found(entering.mac, entering.ip) = {}
  /\ table_count < T_ARP_TABLE_SIZE
  /\ t_arp_table' = [t_arp_table EXCEPT ![table_count + 1].ip = entering.ip]
  /\ entering' = [entering EXCEPT !.step = "mac"]
  /\ UNCHANGED <<table_count, line, told, printed>>

\* ... the hardware address ...
EnterMac ==
  /\ entering.step = "mac"
  /\ t_arp_table' = [t_arp_table EXCEPT ![table_count + 1].mac = entering.mac]
  /\ entering' = [entering EXCEPT !.step = "count"]
  /\ UNCHANGED <<table_count, line, told, printed>>

\* ... and last the count.
EnterCount ==
  /\ entering.step = "count"
  /\ table_count' = table_count + 1
  /\ entering' = NoReply
  /\ UNCHANGED <<t_arp_table, line, told, printed>>

Entering == EntryFound \/ TableFull \/ EnterIp \/ EnterMac \/ EnterCount

-----------------------------------------------------------------------------
(* t_print_arp_table in the main thread; table_count is read for each row.  *)

PrintBegin ==
  /\ line = 0 /\ line' = 1
  /\ UNCHANGED <<t_arp_table, table_count, entering, told, printed>>

PrintRow ==
  /\ line > 0 /\ line <= table_count
  /\ printed' = <<t_arp_table[line].mac, t_arp_table[line].ip>>
  /\ line' = line + 1
  /\ UNCHANGED <<t_arp_table, table_count, entering, told>>

PrintEnd ==
  /\ line > table_count /\ line' = 0 /\ printed' = <<>>
  /\ UNCHANGED <<t_arp_table, table_count, entering, told>>

Printing == PrintBegin \/ PrintRow \/ PrintEnd

-----------------------------------------------------------------------------
ArpTypeOK ==
  /\ t_arp_table \in [Rows -> [mac : Macs \cup {NoMac}, ip : Ips \cup {NoIp}]]
  /\ table_count \in 0..T_ARP_TABLE_SIZE
  /\ entering.step \in {"none", "find", "mac", "count"}
  /\ line \in 0..T_ARP_TABLE_SIZE + 1

\* A line printed while the task changes the table is what some reply told: no
\* row is seen before it is complete.
PrintedWasTold == printed # <<>> => printed \in told

\* No hardware address has two entries, of which the search would only ever
\* bring the first up to date.
OneEntryPerMac ==
  \A r, q \in 1..table_count : t_arp_table[r].mac = t_arp_table[q].mac => r = q

\* Read as a function from hardware address to IP address, the rows below
\* table_count change only as the cache of ArpCache may.
Cache == INSTANCE ArpCache WITH
           Size  <- T_ARP_TABLE_SIZE,
           cache <- [m \in {t_arp_table[r].mac : r \in 1..table_count} |->
                       t_arp_table[CHOOSE r \in 1..table_count : t_arp_table[r].mac = m].ip]
CacheSpec == Cache!Spec
=============================================================================
