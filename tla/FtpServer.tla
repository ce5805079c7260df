----------------------------- MODULE FtpServer -----------------------------
(***************************************************************************)
(* A session of the FTP daemon (src/netutils/ftpd): its worker thread      *)
(* takes one command line at a time and answers it.  Any reply may fail to *)
(* go out, which ends the session; the file system, which other sessions   *)
(* share, answers as it likes.                                             *)
(*                                                                         *)
(* A path is the sequence of its nodes, and one that starts with the empty *)
(* node is absolute.  Memory does not run out.                             *)
(***************************************************************************)
EXTENDS Naturals, Sequences, SequencesExt

CONSTANTS
  FtpAccounts,    \* of each name: whether it is an admin's, has a password,
                  \* and its home
  FtpEnvHome,     \* $HOME
  FtpParams,      \* the paths that a client gives
  FtpDepth        \* bound on the nodes of the working directory

VARIABLES
  ftpStep,        \* what the worker is doing
  guarded,        \* whether there are accounts
  login,          \* user, curr, home, work and renamefrom of the session
  dataConn,       \* what data.sd is, and the data sockets that are open
  ftpFd,          \* the file that is open, if the transfer has made it
  ftpPath,        \* the file that is transferred
  restarting,     \* restartpos > 0
  acted           \* the paths that the last step has handed the file system

ftpVars ==
  <<ftpStep, guarded, login, dataConn, ftpFd, ftpPath, restarting, acted>>

NoPath == <<>>
Empty  == ""            \* the node before a slash at the start of a path
RootPath == <<Empty>>
NoUser == "none"
Users  == DOMAIN FtpAccounts \cup {"stranger"}

NewLogin == [user |-> NoUser, curr |-> FALSE, home |-> NoPath,
             work |-> NoPath, from |-> NoPath]

FtpInit ==
  /\ ftpStep = "closed"
  /\ guarded \in BOOLEAN
  /\ login = NewLogin
  /\ dataConn = [sd |-> "none", open |-> 0]
  /\ ftpFd = "none" /\ ftpPath = NoPath
  /\ restarting = FALSE
  /\ acted = {}

----------------------------------------------------------------------------
(* Paths.  pathignore goes through the nodes, and marks empty ones but the *)
(* first, dots, and with each ".." the last node that is still unmarked,   *)
(* unless it is empty.                                                     *)
Marked(nodes, marked, i) ==
  LET kept == 1..(i - 1) \ marked
      last == { j \in kept : \A k \in kept : k <= j }
  IN  marked \cup
      CASE nodes[i] = Empty -> {i} \ {1}
        [] nodes[i] = ".."  -> {i} \cup { j \in last : nodes[j] # Empty }
        [] nodes[i] = "."   -> {i}
        [] OTHER            -> {}

Ignored(nodes) ==
  LET ignored[i \in 0..Len(nodes)] ==
        IF i = 0 THEN {} ELSE Marked(nodes, ignored[i - 1], i)
  IN  ignored[Len(nodes)]

(* path2node, and node2path without the nodes that are ignored.            *)
Strip(nodes) ==
  LET ignored == Ignored(nodes)
      kept[i \in 0..Len(nodes)] ==
        IF i = 0 THEN <<>>
        ELSE IF i \in ignored THEN kept[i - 1]
        ELSE Append(kept[i - 1], nodes[i])
  IN  kept[Len(nodes)]

(* getpath: the path as the client is to see it, ...                       *)
WorkPath(param) ==
  IF param # NoPath /\ Head(param) = Empty
  THEN Strip(param)
  ELSE Strip(login.work \o param)

(* ... and as the file system knows it.  Before the first USER there is no *)
(* working directory, and getpath fails.                                   *)
AbsPath(param) == Strip(login.home \o WorkPath(param))
Resolves       == login.work # NoPath
Touched(param) == IF Resolves THEN { AbsPath(param) } ELSE {}

----------------------------------------------------------------------------
(* The data connection: dataclose, dataopen, and the ways it fails.  The   *)
(* listening socket of PASV gives way to the one it has accepted.          *)
DataClose(d) ==
  IF d.sd = "none" THEN d ELSE [sd |-> "none", open |-> d.open - 1]

DataOpen(d) ==
  IF d.sd = "none" THEN [sd |-> "connected", open |-> d.open + 1]
  ELSE LET accepted == [d EXCEPT !.open = @ + 1]
       IN  [DataClose(accepted) EXCEPT !.sd = "connected"]

DataListen(d) == [sd |-> "listening", open |-> d.open + 1]

(* A reply, after which the worker goes on or, if it fails, gives up.      *)
Reply == ftpStep' \in {"idle", "ending"}

(* ftpd_command: a command that needs a login, and one that does not.      *)
Command == ftpStep = "idle" /\ UNCHANGED <<guarded, ftpFd, ftpPath>>
LoggedIn == Command /\ (login.curr \/ ~guarded)

----------------------------------------------------------------------------
(* account_login, with the password that is given or without.              *)
LoginAs(l, admitted) ==
  IF ~admitted THEN [l EXCEPT !.curr = FALSE]
  ELSE LET account == FtpAccounts[l.user]
       IN  [l EXCEPT !.curr = TRUE,
              !.home = IF account.admin THEN RootPath ELSE account.home,
              !.work = IF account.admin THEN account.home ELSE RootPath]

(* USER forgets the user before, and the name that was to be renamed; a    *)
(* mutant keeps the name.                                                  *)
KeepFrom(u) == [login EXCEPT !.user = u]
Anew(u)     == [login EXCEPT !.user = u, !.from = NoPath]

User(u) ==
  LET new == Anew(u)
  IN  /\ Command
      /\ login' = IF guarded
                  THEN LoginAs(new, u \in DOMAIN FtpAccounts
                                    /\ ~FtpAccounts[u].password)
                  ELSE [new EXCEPT !.curr = FALSE, !.home = FtpEnvHome,
                                   !.work = RootPath]
      /\ restarting' = FALSE
      /\ acted' = {}
      /\ Reply
      /\ UNCHANGED dataConn

(* PASS: without accounts, too, in which none is found.                    *)
Pass(right) ==
  /\ Command
  /\ login' = IF login.user = NoUser THEN login
              ELSE LoginAs(login, /\ guarded /\ right
                                  /\ login.user \in DOMAIN FtpAccounts)
  /\ acted' = {}
  /\ Reply
  /\ UNCHANGED <<dataConn, restarting>>

(* The commands that only answer, and every one that is refused; QUIT; and *)
(* the end of the connection.                                              *)
Answer ==
  /\ Command
  /\ acted' = {}
  /\ Reply
  /\ UNCHANGED <<login, dataConn, restarting>>

Leave ==
  /\ Command
  /\ ftpStep' = "ending"
  /\ acted' = {}
  /\ UNCHANGED <<login, dataConn, restarting>>

----------------------------------------------------------------------------
(* CWD and CDUP.                                                           *)
ChangeDir(param) ==
  /\ LoggedIn
  /\ Resolves => Len(WorkPath(param)) <= FtpDepth
  /\ acted' = Touched(param)
  /\ \E isDirectory \in BOOLEAN :
       login' = IF Resolves /\ isDirectory
                THEN [login EXCEPT !.work = WorkPath(param)]
                ELSE login
  /\ Reply
  /\ UNCHANGED <<dataConn, restarting>>

(* RMD and DELE, which spare the home and the working directory, ...       *)
Delete(param) ==
  /\ LoggedIn
  /\ acted' = IF Resolves /\ WorkPath(param) # login.work
              THEN Touched(param) \ { login.home }
              ELSE {}
  /\ Reply
  /\ UNCHANGED <<login, dataConn, restarting>>

(* ... and MKD, SIZE and MDTM.                                             *)
Visit(param) ==
  /\ LoggedIn
  /\ acted' = Touched(param)
  /\ Reply
  /\ UNCHANGED <<login, dataConn, restarting>>

Rnfr(param) ==
  /\ LoggedIn
  /\ acted' = Touched(param)
  /\ \E exists \in BOOLEAN :
       login' = [login EXCEPT !.from = IF Resolves /\ exists
                                       THEN AbsPath(param) ELSE NoPath]
  /\ Reply
  /\ UNCHANGED <<dataConn, restarting>>

(* RNTO leaves the name it renames from for another RNTO.                  *)
Rnto(param) ==
  /\ LoggedIn
  /\ acted' = IF login.from # NoPath /\ Resolves
              THEN { login.from, AbsPath(param) } ELSE {}
  /\ Reply
  /\ UNCHANGED <<login, dataConn, restarting>>

----------------------------------------------------------------------------
(* PORT and ABOR; EPRT, which may be malformed, or of another family.      *)
Port ==
  /\ LoggedIn
  /\ dataConn' = DataClose(dataConn)
  /\ acted' = {}
  /\ Reply
  /\ UNCHANGED <<login, restarting>>

Eprt ==
  /\ LoggedIn
  /\ dataConn' \in { dataConn, DataClose(dataConn) }
  /\ ftpStep' = "ending"
  /\ acted' = {}
  /\ UNCHANGED <<login, restarting>>

(* PASV and EPSV: some call fails, or the socket listens; it is closed     *)
(* again if the client cannot be told.                                     *)
Pasv ==
  LET closed == DataClose(dataConn)
  IN  /\ LoggedIn
      /\ \/ Reply /\ dataConn' \in { closed, DataClose(DataListen(closed)) }
         \/ ftpStep' = "idle" /\ dataConn' = DataListen(closed)
      /\ acted' = {}
      /\ UNCHANGED <<login, restarting>>

Rest ==
  /\ LoggedIn
  /\ restarting' \in BOOLEAN
  /\ acted' = {}
  /\ Reply
  /\ UNCHANGED <<login, dataConn>>

(* What a listing reads: the path, and in a directory its entries.         *)
Entry == "a"
Listed(param) == Touched(param) \cup { Append(p, Entry) : p \in Touched(param) }

(* LIST and NLST: a connection that cannot be opened is no reason to end   *)
(* the session, nor is a path that cannot be listed.                       *)
List(param) ==
  LET opened == DataOpen(dataConn)
  IN  /\ LoggedIn
      /\ \/ /\ dataConn' = DataClose(dataConn)
            /\ ftpStep' = "idle"
            /\ acted' = {}
         \/ /\ dataConn' = DataClose(opened)
            /\ \/ ftpStep' = "ending" /\ acted' = {}
               \/ Reply /\ acted' \in { Touched(param), Listed(param) }
      /\ UNCHANGED <<login, restarting>>

----------------------------------------------------------------------------
(* RETR, STOR and APPE, in three steps: the data connection, ...           *)
Stream(param) ==
  /\ ftpStep = "idle" /\ (login.curr \/ ~guarded)
  /\ \/ /\ Resolves
        /\ dataConn' = DataOpen(dataConn)
        /\ ftpPath' = AbsPath(param)
        /\ ftpStep' \in {"opening", "creating"}
     \/ /\ dataConn' = IF Resolves THEN DataClose(dataConn) ELSE dataConn
        /\ ftpStep' = "ending"
        /\ UNCHANGED ftpPath
  /\ acted' = {}
  /\ UNCHANGED <<guarded, login, ftpFd, restarting>>

(* ... its release, with that of the file; a file that the transfer has    *)
(* made is removed if the transfer fails; ...                              *)
EndStream(outcome) ==
  /\ ftpFd' = "none"
  /\ dataConn' = DataClose(dataConn)
  /\ ftpPath' = NoPath
  /\ ftpStep' = outcome

(* ... the file, which is opened, and positioned after a REST, ...         *)
OpenFile ==
  /\ ftpStep \in {"opening", "creating"}
  /\ acted' = { ftpPath }
  /\ \/ EndStream("ending")
     \/ /\ ftpFd' \in IF ftpStep = "creating" THEN {"new", "old"} ELSE {"old"}
        /\ ftpStep' = IF restarting THEN "seeking" ELSE "copying"
        /\ UNCHANGED <<dataConn, ftpPath>>
  /\ UNCHANGED <<guarded, login, restarting>>

Seek ==
  /\ ftpStep = "seeking"
  /\ acted' = { ftpPath }
  /\ \/ EndStream("ending")
     \/ ftpStep' = "copying" /\ UNCHANGED <<dataConn, ftpFd, ftpPath>>
  /\ UNCHANGED <<guarded, login, restarting>>

(* ... and the blocks, to the end of the file or of the connection.        *)
Copy ==
  /\ ftpStep = "copying"
  /\ \/ EndStream("idle") /\ acted' = {}
     \/ /\ EndStream("ending")
        /\ acted' = IF ftpFd = "new" THEN { ftpPath } ELSE {}
  /\ UNCHANGED <<guarded, login, restarting>>

----------------------------------------------------------------------------
(* freesession; and ftpd_session with the worker's welcome.                *)
EndSession ==
  /\ ftpStep = "ending"
  /\ ftpStep' = "closed"
  /\ login' = NewLogin
  /\ dataConn' = DataClose(dataConn)
  /\ ftpFd' = "none"
  /\ restarting' = FALSE
  /\ acted' = {}
  /\ UNCHANGED <<guarded, ftpPath>>

StartSession ==
  /\ ftpStep = "closed"
  /\ Reply
  /\ UNCHANGED <<guarded, login, dataConn, ftpFd, ftpPath, restarting, acted>>

FtpNext ==
  \/ \E u \in Users : User(u)
  \/ \E right \in BOOLEAN : Pass(right)
  \/ \E param \in FtpParams :
       \/ ChangeDir(param) \/ Delete(param) \/ Visit(param)
       \/ Rnfr(param) \/ Rnto(param) \/ List(param) \/ Stream(param)
  \/ Answer \/ Leave \/ Port \/ Eprt \/ Pasv \/ Rest
  \/ OpenFile \/ Seek \/ Copy
  \/ EndSession \/ StartSession

----------------------------------------------------------------------------
(* The directory that the user who is logged in may see.                   *)
RightfulHome ==
  IF ~guarded THEN FtpEnvHome
  ELSE IF FtpAccounts[login.user].admin THEN RootPath
  ELSE FtpAccounts[login.user].home

(* Whatever paths, users and renames a client strings together, the daemon *)
(* hands the file system no path outside the home of the user who is then  *)
(* logged in, and none without a login.                                    *)
ActsInHome ==
  acted # {} =>
    /\ guarded => login.curr
    /\ \A path \in acted : IsPrefix(RightfulHome, path)

(* The session loses no data socket, and holds no file and no connection   *)
(* but that of a PASV when it waits for a command, and nothing at its end. *)
DescriptorsReturned ==
  /\ dataConn.open = IF dataConn.sd = "none" THEN 0 ELSE 1
  /\ ftpStep = "idle" => ftpFd = "none" /\ dataConn.sd # "connected"
  /\ ftpStep = "closed" => ftpFd = "none" /\ dataConn.sd = "none"

(* The promises of a session (src/netutils/ftpd/ftpd.c): it acts in the    *)
(* user's home, and hands back what it opens.                              *)
SessionSound == ActsInHome /\ DescriptorsReturned

============================================================================
