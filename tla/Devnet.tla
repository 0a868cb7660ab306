-------------------------------- MODULE Devnet --------------------------------
(* Block production on several nodes with the round-robin schedule: the slot *)
(* tickers, the event loops and the gossip between them.  A block stands for *)
(* the chain that it ends, since its hash commits to its ancestors.  Block   *)
(* bodies are left to module Node.                                           *)
EXTENDS Integers, Sequences, SequencesExt

CONSTANTS Members,        \* the nodes
          genesis_pools,  \* their pools in the order of the configuration
          Variants,       \* bodies and timestamps that two blocks may differ in
          LastSlot, MaxDue, \* bounds: slots, ticks that wait for a slow ticker
          Idle            \* no block under construction

VARIABLES slot,     \* the slot of the wall clock
          chains,   \* chains[n]: the chain that ends in the tip of n
          inbox,    \* inbox[n]: event channel of n
          ticker,   \* ticker[n]: its interval and the block it waits to dispatch
          air,      \* air[n]: gossip under way to n
          heard,    \* heard[n]: messages that gossipsub of n knows
          late      \* history: some slot began before the last one was settled

vars == <<slot, chains, inbox, ticker, air, heard, late>>

tip_slot(c) == IF c = <<>> THEN 0 ELSE Last(c).slot

Init ==
    /\ slot = 0
    /\ chains = [n \in Members |-> <<>>]
    /\ inbox = [n \in Members |-> <<>>]
    /\ ticker = [n \in Members |-> [running |-> FALSE, due |-> 0, block |-> Idle]]
    /\ air = [n \in Members |-> {}]
    /\ heard = [n \in Members |-> {}]
    /\ late = FALSE

\* A node whose pool is not in the configuration starts without a ticker.
spawn_slot_ticker(n) == n \in Range(genesis_pools)

\* The warm-up is over: the first tick of an interval is due at once.
StartTicker(n) ==
    /\ spawn_slot_ticker(n)
    /\ ~ticker[n].running
    /\ ticker' = [ticker EXCEPT ![n] = [@ EXCEPT !.running = TRUE, !.due = 1]]
    /\ UNCHANGED <<slot, chains, inbox, air, heard, late>>

leader_of(s) == genesis_pools[1 + (s % Len(genesis_pools))]

leads_any(n) == TRUE
leads(n) == leader_of(slot) = n

\* A missed tick fires later, so two ticks may read the same slot.
Tick(n) ==
    /\ ticker[n].due > 0
    /\ ticker[n].block = Idle
    /\ \E v \in Variants :
         ticker' = [ticker EXCEPT ![n] =
             [running |-> @.running, due |-> @.due - 1,
              block |-> IF leads(n)
                        THEN Append(chains[n], [slot |-> slot, by |-> n, variant |-> v])
                        ELSE Idle]]
    /\ UNCHANGED <<slot, chains, inbox, air, heard, late>>

Dispatch(n) ==
    /\ ticker[n].block # Idle
    /\ inbox' = [inbox EXCEPT ![n] = Append(@, ticker[n].block)]
    /\ ticker' = [ticker EXCEPT ![n].block = Idle]
    /\ UNCHANGED <<slot, chains, air, heard, late>>

validate_chain_linkage(n, b) == Front(b) = chains[n] /\ Last(b).slot > tip_slot(chains[n])

\* Refused blocks are passed on too.
HandleBlock(n) ==
    LET b == Head(inbox[n]) IN
    /\ inbox[n] # <<>>
    /\ inbox' = [inbox EXCEPT ![n] = Tail(@)]
    /\ chains' = IF validate_chain_linkage(n, b) THEN [chains EXCEPT ![n] = b] ELSE chains
    /\ heard' = [heard EXCEPT ![n] = @ \cup {b}]
    /\ air' = [p \in Members |-> IF p = n \/ b \in heard[p] THEN air[p] ELSE air[p] \cup {b}]
    /\ UNCHANGED <<slot, ticker, late>>

Receive(n, b) ==
    /\ b \in air[n]
    /\ air' = [air EXCEPT ![n] = @ \ {b}]
    /\ heard' = [heard EXCEPT ![n] = @ \cup {b}]
    /\ inbox' = IF b \in heard[n] THEN inbox ELSE [inbox EXCEPT ![n] = Append(@, b)]
    /\ UNCHANGED <<slot, chains, ticker, late>>

\* Nothing asks for a lost block again.
Lose(n, b) ==
    /\ b \in air[n]
    /\ air' = [air EXCEPT ![n] = @ \ {b}]
    /\ late' = TRUE
    /\ UNCHANGED <<slot, chains, inbox, ticker, heard>>

Settled ==
    \A n \in Members : inbox[n] = <<>> /\ air[n] = {} /\ ticker[n].due = 0 /\ ticker[n].block = Idle

NextSlot ==
    /\ slot < LastSlot
    /\ \A n \in Members : ticker[n].due < MaxDue
    /\ slot' = slot + 1
    /\ ticker' = [n \in Members |->
                     IF ticker[n].running THEN [ticker[n] EXCEPT !.due = @ + 1] ELSE ticker[n]]
    /\ late' = (late \/ ~Settled)
    /\ UNCHANGED <<chains, inbox, air, heard>>

Next ==
    \/ NextSlot
    \/ \E n \in Members :
         \/ StartTicker(n) \/ Tick(n) \/ Dispatch(n) \/ HandleBlock(n)
         \/ \E b \in air[n] : Receive(n, b) \/ Lose(n, b)

Spec == Init /\ [][Next]_vars

-------------------------------------------------------------------------------
\* The comment in SlotTicker::run: "Exactly one leader per slot, so the multi-node devnet
\* never forks."  It does not hold: a block that is lost, or still under way when the next
\* slot begins, leaves the next leader to build beside it.
NeverForks ==
    \A n, p \in Members : IsPrefix(chains[n], chains[p]) \/ IsPrefix(chains[p], chains[n])

\* What holds instead: the nodes hold one chain as long as no block is lost and every slot
\* is settled before the next one begins; afterwards a chain still grows by slots, and only
\* with blocks of the leader of their slot (the round-robin schedule of SlotTicker::run,
\* validate_chain_linkage).
OneChain ==
    /\ late \/ NeverForks
    /\ \A n \in Members : \A i \in DOMAIN chains[n] :
         /\ i > 1 => chains[n][i].slot > chains[n][i - 1].slot
         /\ chains[n][i].by = leader_of(chains[n][i].slot)

===============================================================================
