------------------------------- MODULE Etharp -------------------------------
(***************************************************************************)
(* lwIP's address resolution (etharp.c) for one interface: the table, the  *)
(* packets that wait in it, the hint to the entry used last, its ageing.   *)
(* Everything runs in the tcpip thread: a packet to send, a frame received *)
(* and a tick of the timer are one step each.  Addresses are those of      *)
(* hosts on the local network and of the gateway; requests may be lost and *)
(* be answered late, more than once or never.                              *)
(***************************************************************************)
EXTENDS Integers, Sequences, FiniteSets, FiniteSetsExt, SequencesExt, Functions

CONSTANTS Ip, Mac,
          ARP_TABLE_SIZE,      \* 10 in the configuration
          ARP_MAXAGE,          \* 240
          ARP_AGE_REREQUEST,   \* ARP_AGE_REREQUEST_USED, 228
          ARP_MAXPENDING,
          MEMP_NUM_ARP_QUEUE,  \* 30
          MaxPackets           \* bound: packets sent to each address

VARIABLES arp_table, etharp_cached_entry,
          packets,     \* history: how many packets were given to be sent
          sent,        \* history: the IP frames that the last step put on the wire
          announced    \* history: the hardware address each host named last
arpvars == <<arp_table, etharp_cached_entry, packets, sent, announced>>

Index == 1..ARP_TABLE_SIZE
Stable == {"STABLE", "REREQUESTING"}

(* An entry that is freed is cleared, with the packets in its queue.       *)
etharp_free_entry == [state |-> "EMPTY", ip |-> "none", mac |-> "none", ctime |-> 0, q |-> <<>>]

Entries(states) == {i \in Index : arp_table[i].state \in states}
Matches(ip, states) == {i \in Entries(states) : arp_table[i].ip = ip}
Queued == FoldFunction(LAMBDA e, n : n + Len(e.q), 0, arp_table)

ArpInit ==
  /\ arp_table = [i \in Index |-> etharp_free_entry]
  /\ etharp_cached_entry = 1
  /\ packets = 0
  /\ sent = <<>>
  /\ announced = [ip \in Ip |-> "none"]

(* The oldest of some entries; of several, the last in the table.          *)
Oldest(S) == Max({i \in S : \A j \in S : arp_table[j].ctime <= arp_table[i].ctime})

(* The least destructive entry to use again.                               *)
Recycled ==
  LET empty == Entries({"EMPTY"})
      pending == {i \in Entries({"PENDING"}) : arp_table[i].q = <<>>}
  IN  CASE empty # {} -> Min(empty)
        [] empty = {} /\ Entries(Stable) # {} -> Oldest(Entries(Stable))
        [] empty = {} /\ Entries(Stable) = {} /\ pending # {} -> Oldest(pending)
        [] OTHER -> Oldest(Entries({"PENDING"}))


(* The index of ip's entry, found or made; 0 if it may not be made.        *)
Found(ip) == Matches(ip, {"PENDING"} \cup Stable)
etharp_find_entry(ip, only) == IF Found(ip) # {} THEN Min(Found(ip))
                               ELSE IF only THEN 0 ELSE Recycled

(* The entry at that index, if it was made now.                            *)
Entry(ip, i) == IF Found(ip) # {} THEN arp_table[i]
                ELSE [etharp_free_entry EXCEPT !.ip = ip]

Send(ip, ns, mac) == sent' = [k \in DOMAIN ns |-> [ip |-> ip, n |-> ns[k], mac |-> mac]]

-----------------------------------------------------------------------------
(* etharp_output(), for a packet to ip.                                    *)

(* Mutant of Hit: the address of the entry used last is not compared.      *)
Hit_any(ip) == arp_table[etharp_cached_entry].state \in Stable

Hit(ip) == /\ arp_table[etharp_cached_entry].state \in Stable
           /\ arp_table[etharp_cached_entry].ip = ip
Known(ip) == IF Hit(ip) THEN {etharp_cached_entry} ELSE Matches(ip, Stable)

(* An entry that is about to expire is asked for again when it is used; if *)
(* the request cannot be sent (~ok), the next packet asks again.           *)
etharp_output_to_arp_index(ip, i, ok) ==
  LET asks == arp_table[i].state = "STABLE" /\ arp_table[i].ctime >= ARP_AGE_REREQUEST
  IN  /\ arp_table' = IF asks /\ ok THEN [arp_table EXCEPT ![i].state = "REREQUESTING"]
                      ELSE arp_table
      /\ etharp_cached_entry' = i
      /\ Send(ip, <<packets'>>, arp_table[i].mac)

(* Mutant of etharp_query: the packet goes to the front of the queue.      *)
etharp_query_front(ip, ok) ==
  LET i == etharp_find_entry(ip, FALSE)
      e == [Entry(ip, i) EXCEPT !.state = "PENDING"]
      room == Queued - Len(arp_table[i].q) + Len(e.q) < MEMP_NUM_ARP_QUEUE
  IN  /\ arp_table' = [arp_table EXCEPT ![i] =
                         IF ok /\ room THEN [e EXCEPT !.q = <<packets'>> \o @] ELSE e]
      /\ sent' = <<>>
      /\ UNCHANGED etharp_cached_entry

(* An unknown address is asked for, and a copy of the packet waits in its  *)
(* entry, if it can be had (ok) and while MEMP_ARP_QUEUE lasts.            *)
etharp_query(ip, ok) ==
  LET i == etharp_find_entry(ip, FALSE)
      e == [Entry(ip, i) EXCEPT !.state = "PENDING"]
      room == Queued - Len(arp_table[i].q) + Len(e.q) < MEMP_NUM_ARP_QUEUE
  IN  /\ arp_table' = [arp_table EXCEPT ![i] =
                         IF ok /\ room THEN [e EXCEPT !.q = Append(@, packets')] ELSE e]
      /\ sent' = <<>>
      /\ UNCHANGED etharp_cached_entry

etharp_output(ip, ok) ==
  /\ packets < MaxPackets
  /\ packets' = packets + 1
  /\ \/ Known(ip) # {} /\ etharp_output_to_arp_index(ip, Min(Known(ip)), ok)
     \/ Known(ip) = {} /\ etharp_query(ip, ok)
  /\ UNCHANGED announced

-----------------------------------------------------------------------------
(* A packet of ARP from host ip with the address mac.  One that is for us  *)
(* makes an entry, any other brings the entry up to date that there is.    *)
(* The packets that wait go out one after the other.                       *)
etharp_update_arp_entry(ip, mac, only) ==
  LET i == etharp_find_entry(ip, only)
      e == Entry(ip, i)
  IN  IF i = 0 THEN UNCHANGED arp_table /\ sent' = <<>>
      ELSE /\ arp_table' = [arp_table EXCEPT ![i] =
                              [e EXCEPT !.state = "STABLE", !.mac = mac, !.ctime = 0, !.q = <<>>]]
           /\ Send(ip, e.q, mac)

etharp_arp_input(ip, mac, for_us) ==
  /\ announced' = [announced EXCEPT ![ip] = mac]
  /\ etharp_update_arp_entry(ip, mac, ~for_us)
  /\ UNCHANGED <<etharp_cached_entry, packets>>

Expired(e) == \/ e.ctime + 1 >= ARP_MAXAGE
              \/ e.state = "PENDING" /\ e.ctime + 1 >= ARP_MAXPENDING

Aged(e) == CASE e.state = "EMPTY" -> e
             [] e.state # "EMPTY" /\ Expired(e) -> etharp_free_entry
             [] OTHER -> [e EXCEPT !.ctime = @ + 1,
                                   !.state = IF @ = "REREQUESTING" THEN "STABLE" ELSE @]

etharp_tmr ==
  /\ arp_table' = [i \in Index |-> Aged(arp_table[i])]
  /\ sent' = <<>>
  /\ UNCHANGED <<etharp_cached_entry, packets, announced>>

(* When the interface goes down.  An entry is given its interface when it  *)
(* is resolved, so that one that is pending is not the interface's and     *)
(* stays, with its packets.                                                *)
etharp_cleanup_netif ==
  /\ arp_table' = [i \in Index |-> IF arp_table[i].state \in Stable THEN etharp_free_entry
                                   ELSE arp_table[i]]
  /\ sent' = <<>>
  /\ UNCHANGED <<etharp_cached_entry, packets, announced>>

ArpNext == \/ etharp_tmr
           \/ etharp_cleanup_netif
           \/ \E ip \in Ip : \/ \E ok \in BOOLEAN : etharp_output(ip, ok)
                             \/ \E mac \in Mac, for_us \in BOOLEAN : etharp_arp_input(ip, mac, for_us)

ArpSpec == ArpInit /\ [][ArpNext]_arpvars
-----------------------------------------------------------------------------

(* A frame goes to the hardware address its host named last, by way of the *)
(* hint, of the table or of the queue: etharp_output() never uses an entry *)
(* that etharp_find_entry() has meanwhile given to another address.        *)
SentToLatest == \A k \in DOMAIN sent : sent[k].mac = announced[sent[k].ip]

(* Packets to an address leave in the order in which they were given to    *)
(* etharp_output(), also around the moment when its answer arrives: those  *)
(* that waited go in order, and none is sent while others wait.            *)
SentInOrder ==
  /\ \A j, k \in DOMAIN sent : j < k => sent[j].n < sent[k].n
  /\ \A k \in DOMAIN sent, i \in Index :
       arp_table[i].ip = sent[k].ip => arp_table[i].q = <<>>
=============================================================================
