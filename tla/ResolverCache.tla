---------------------------- MODULE ResolverCache ---------------------------
(***************************************************************************)
(* resolver_cache: the cached DNS answers that all fibers share, for one   *)
(* host.  async_resolve reads the time, holds the mutex for its lookup and *)
(* again for its insertion, and not while its fiber waits for the mutex or *)
(* for the DNS server in between.                                          *)
(*                                                                         *)
(* Time is a counter, the address of the host a version that changes in    *)
(* the DNS; changed[v] is when version v was replaced.                     *)
(***************************************************************************)
EXTENDS Naturals

CONSTANTS
  Resolvers,    \* fibers, of any worker, that resolve the host
  TTL,          \* std::chrono::minutes(5); the option dns-cache-ttl is not used
  MaxTime,      \* bound on the time
  MaxAddress    \* bound on the changes of the address

ASSUME ResolverAssumption ==
  TTL \in Nat \ {0} /\ MaxTime \in Nat \ {0} /\ MaxAddress \in Nat \ {0}

VARIABLES
  clock,
  dns,          \* the address the DNS has
  changed,      \* per address: when it was replaced, 0 while it is not
  entry,        \* the entry of the cache: [address, expires], or address 0
  resolver      \* per fiber: [pc, now, address]

resolverVars == <<clock, dns, changed, entry, resolver>>

Addresses == 1 .. MaxAddress

ResolverTypeOK ==
  /\ clock \in 1 .. MaxTime /\ dns \in Addresses
  /\ changed \in [Addresses -> 0 .. MaxTime]
  /\ entry \in [address : 0 .. MaxAddress, expires : 0 .. MaxTime + TTL]
  /\ resolver \in [Resolvers -> [pc : {"idle", "locking", "lookup", "answered", "returned"},
                                 now : 0 .. MaxTime, address : 0 .. MaxAddress]]

NoEntry == [address |-> 0, expires |-> 0]

ResolverInit ==
  /\ clock = 1 /\ dns = 1
  /\ changed = [a \in Addresses |-> 0]
  /\ entry = NoEntry
  /\ resolver = [f \in Resolvers |-> [pc |-> "idle", now |-> 0, address |-> 0]]

Tick ==
  /\ clock < MaxTime /\ clock' = clock + 1
  /\ UNCHANGED <<dns, changed, entry, resolver>>

AddressChanges ==
  /\ dns < MaxAddress /\ dns' = dns + 1
  /\ changed' = [changed EXCEPT ![dns] = clock]
  /\ UNCHANGED <<clock, entry, resolver>>

\* async_resolve begins: it reads the time, and waits for the mutex.
Resolve(f) ==
  /\ resolver[f].pc = "idle"
  /\ resolver' = [resolver EXCEPT ![f] = [pc |-> "locking", now |-> clock, address |-> 0]]
  /\ UNCHANGED <<clock, dns, changed, entry>>

\* The entry is there and expires later than now.
Hit(now) == entry.address # 0 /\ entry.expires > now

\* Under the mutex: a hit is returned; an expired entry is erased.
LookUp(f) ==
  /\ resolver[f].pc = "locking"
  /\ IF Hit(resolver[f].now)
       THEN /\ resolver' = [resolver EXCEPT ![f].pc = "returned", ![f].address = entry.address]
            /\ UNCHANGED entry
       ELSE /\ resolver' = [resolver EXCEPT ![f].pc = "lookup"]
            /\ entry' = NoEntry
  /\ UNCHANGED <<clock, dns, changed>>

\* The DNS server answers; the fiber goes on later.
DnsAnswers(f) ==
  /\ resolver[f].pc = "lookup"
  /\ resolver' = [resolver EXCEPT ![f].pc = "answered", ![f].address = dns]
  /\ UNCHANGED <<clock, dns, changed, entry>>

\* The lookup throws a system_error: nothing is stored.
DnsFails(f) ==
  /\ resolver[f].pc = "lookup"
  /\ resolver' = [resolver EXCEPT ![f] = [pc |-> "idle", now |-> 0, address |-> 0]]
  /\ UNCHANGED <<clock, dns, changed, entry>>

\* Slip: the life of the entry begins when the answer is stored.
BadExpires(now) == clock + TTL

\* The time was read before the lookup.
Expires(now) == now + TTL

\* Under the mutex: the entry is replaced, whatever is there by now.
Store(f) ==
  /\ resolver[f].pc = "answered"
  /\ entry' = [address |-> resolver[f].address, expires |-> Expires(resolver[f].now)]
  /\ resolver' = [resolver EXCEPT ![f].pc = "returned"]
  /\ UNCHANGED <<clock, dns, changed>>

\* The caller resolves again later.
Again(f) ==
  /\ resolver[f].pc = "returned"
  /\ resolver' = [resolver EXCEPT ![f] = [pc |-> "idle", now |-> 0, address |-> 0]]
  /\ UNCHANGED <<clock, dns, changed, entry>>

ResolverNext ==
  \/ Tick \/ AddressChanges
  \/ \E f \in Resolvers : Resolve(f) \/ LookUp(f) \/ DnsAnswers(f) \/ DnsFails(f) \/ Store(f) \/ Again(f)

ResolverSpec == ResolverInit /\ [][ResolverNext]_resolverVars

-----------------------------------------------------------------------------
\* The cached answer was right less than TTL before any moment it is served,
\* although lookups overlap, take any time, and store their answers in any
\* order: a slow lookup may put back an older address, with its older expiry.
CachedAnswersAreFresh ==
  entry.address # 0 /\ entry.expires > clock /\ changed[entry.address] # 0 =>
    changed[entry.address] + TTL > clock

\* What a fiber returns, from the cache or from the DNS, was right less than TTL
\* before its own lookup began.
ReturnedAnswersAreFresh ==
  \A f \in Resolvers :
    resolver[f].pc = "returned" /\ changed[resolver[f].address] # 0 =>
      changed[resolver[f].address] + TTL > resolver[f].now

ResolverInv == ResolverTypeOK /\ CachedAnswersAreFresh /\ ReturnedAnswersAreFresh

=============================================================================
