------------------------------- MODULE RedisClient -------------------------------
(***************************************************************************)
(* RedisClientAdapter: one client of one instance, whose connection is     *)
(* opened by the first command that needs it and shared by the commands    *)
(* that come meanwhile.  Both the connection and each command have a       *)
(* deadline; neither deadline stops what it gives up.                      *)
(***************************************************************************)
CONSTANT Callers   \* each sends one command

VARIABLES socket,      \* isOpen and isReady of the client
          connecting,  \* connectPromise is set
          commands     \* [Callers -> Progress]

Sockets == {"closed", "opening", "ready"}

\* waiting on connectPromise; sent; executed, its reply under way; replied;
\* failed; abandoned: failed for its caller, but Redis may still execute it.
Progress == {"none", "waiting", "sent", "executed", "replied", "failed", "abandoned"}

InitClient == /\ socket = "closed"
              /\ connecting = FALSE
              /\ commands = [c \in Callers |-> "none"]

Waiters == {c \in Callers : commands[c] = "waiting"}
Settle(progress) == commands' = [c \in Callers |-> IF c \in Waiters THEN progress ELSE commands[c]]

\* getReadyClient, up to its await.  connect() opens the socket at once.
GetReadyClient(c) ==
  \/ /\ socket = "ready"
     /\ commands' = [commands EXCEPT ![c] = "sent"]
     /\ UNCHANGED <<socket, connecting>>
  \/ /\ socket = "opening"
     /\ commands' = [commands EXCEPT ![c] = "failed"]
     /\ UNCHANGED <<socket, connecting>>
  \/ /\ socket = "closed"
     /\ commands' = [commands EXCEPT ![c] = "waiting"]
     /\ connecting' = TRUE
     /\ socket' = IF connecting THEN socket ELSE "opening"

\* eval: the command of c starts.
Eval(c) == commands[c] = "none" /\ GetReadyClient(c)

\* The server accepts the connection; it may do so after the deadline.
SocketReady == /\ socket = "opening"
               /\ socket' = "ready"
               /\ UNCHANGED <<connecting, commands>>

\* The connection fails or is lost; reconnectStrategy is off.
SocketCloses == /\ socket # "closed"
                /\ socket' = "closed"
                /\ UNCHANGED <<connecting, commands>>

\* connect() settles: those who awaited it look at the client again.
ConnectSettles == /\ connecting
                  /\ socket # "opening"
                  /\ connecting' = FALSE
                  /\ Settle(IF socket = "ready" THEN "sent" ELSE "failed")
                  /\ UNCHANGED socket

\* Faulty variant: the deadline forgets the connection, and not those who wait.
ConnectForgotten == /\ connecting
                    /\ connecting' = FALSE
                    /\ UNCHANGED <<socket, commands>>

\* withDeadline rejects the shared promise; connect() goes on.
ConnectDeadline == /\ connecting
                   /\ connecting' = FALSE
                   /\ Settle("failed")
                   /\ UNCHANGED socket

\* Redis executes a command, also one that was given up.
Executes(c) == /\ commands[c] \in {"sent", "abandoned"}
               /\ commands' = [commands EXCEPT ![c] = IF @ = "sent" THEN "executed" ELSE "failed"]
               /\ UNCHANGED <<socket, connecting>>

\* The reply arrives while the connection lasts.
Replies(c) == /\ commands[c] = "executed"
              /\ socket = "ready"
              /\ commands' = [commands EXCEPT ![c] = "replied"]
              /\ UNCHANGED <<socket, connecting>>

\* The deadline of the command fires, or the connection breaks under it.
CommandDeadline(c) == /\ commands[c] \in {"sent", "executed"}
                      /\ commands' = [commands EXCEPT ![c] = IF @ = "sent" THEN "abandoned" ELSE "failed"]
                      /\ UNCHANGED <<socket, connecting>>

Connection == SocketReady \/ SocketCloses \/ ConnectSettles \/ ConnectDeadline

\* What eval returns to c.
Unavailable(c) == commands[c] \in {"failed", "abandoned"}

TypeOfClient == /\ socket \in Sockets
                /\ connecting \in BOOLEAN
                /\ commands \in [Callers -> Progress]
================================================================================
