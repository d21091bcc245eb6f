--------------------------- MODULE SportsService ----------------------------
(***************************************************************************)
(* The sports service: the synchronization of a league's games, which      *)
(* changes the event through the event service and then the game's own     *)
(* rows, and the readers, who join both and cache what they found.  The    *)
(* event behind a game is also changed without this service, which then    *)
(* deletes nothing here.  Reading a game takes two statements, reading the *)
(* list one to count, one to select and one more for every game selected.  *)
(***************************************************************************)
EXTENDS EventStore

CONSTANTS Games,        \* the events that are games of a selected league
          Readers,
          Lineups,      \* the teams of a game
          NoGame,       \* no row, and no cached game
          MaxFailures   \* bound: failed calls and crashes

ASSUME SportsServiceAssumption ==
    /\ Games \subseteq Polymarket
    /\ IsFiniteSet(Games)
    /\ NoGame \notin Lineups
    /\ MaxFailures \in Nat

VARIABLES listed,     \* the game at the source: its status and line-up
          lineups,    \* sports_event_teams, for the rows of sports_events
          games,      \* the cached game under every detail key
          scores,     \* the cached list under the current list version
          gameSync,   \* the synchronization in progress
          readers,    \* the call every reader is executing
          failures    \* failed calls and crashes so far

sports == <<listed, lineups, games, scores, gameSync, readers, failures>>
sportsVars == <<tables, sports>>

NoSync == [at |-> "idle", todo |-> {}, game |-> NoGame, lineup |-> NoGame]
NotReading == [at |-> "idle", game |-> NoGame, status |-> "none",
               lineup |-> NoGame, current |-> FALSE, total |-> 0,
               values |-> NoGame]

SportsInit ==
    /\ \E l \in Lineups :
        listed = [g \in Games |-> [status |-> "active", lineup |-> l]]
    /\ lineups = [g \in Games |-> NoGame]
    /\ games = [g \in Games |-> NoGame]
    /\ scores = NoGame
    /\ gameSync = NoSync
    /\ readers = [r \in Readers |-> NotReading]
    /\ failures = 0

Failure == failures < MaxFailures /\ failures' = failures + 1
Reads(r, reading) == readers' = [readers EXCEPT ![r] = reading]

\* sports_events joined with events: the games that have both rows.
JoinedGames == {g \in Games : lineups[g] # NoGame}

-----------------------------------------------------------------------------
(* Synchronization                                                         *)

\* A source event with its teams; its status is the one it was asked for by.
normalizeSourceGame(g) == [game |-> g, lineup |-> listed[g].lineup]

\* Only open games are asked for; the page is the work of the whole run.
FetchGames ==
    /\ gameSync = NoSync
    /\ gameSync' = [NoSync EXCEPT !.at = "games",
        !.todo = {normalizeSourceGame(g) :
                     g \in {h \in Games : listed[h].status = "active"}}]
    /\ UNCHANGED <<tables, listed, lineups, games, scores, readers, failures>>

\* The event row first, through event.SyncSource, ...
SyncGame ==
    /\ gameSync.at = "games"
    /\ \E next \in gameSync.todo :
        /\ UpsertSource(next.game, "active")
        /\ gameSync' = [gameSync EXCEPT !.at = "upsert",
                            !.todo = @ \ {next}, !.game = next.game,
                            !.lineup = next.lineup]
    /\ UNCHANGED <<listed, lineups, games, scores, readers, failures>>

\* ... then the game and its teams in one transaction, ...
UpsertGame ==
    /\ gameSync.at = "upsert"
    /\ lineups' = [lineups EXCEPT ![gameSync.game] = gameSync.lineup]
    /\ gameSync' = [gameSync EXCEPT !.at = "delete"]
    /\ UNCHANGED <<tables, listed, games, scores, readers, failures>>

\* ... then the cached game goes; a cache error is ignored.
deleteCachedDetail ==
    /\ gameSync.at = "delete"
    /\ \/ games' = [games EXCEPT ![gameSync.game] = NoGame] /\ UNCHANGED failures
       \/ Failure /\ UNCHANGED games
    /\ gameSync' = [NoSync EXCEPT !.at = "games", !.todo = gameSync.todo]
    /\ UNCHANGED <<tables, listed, lineups, scores, readers>>

\* Replacing the list version: what readers store under theirs is lost.
Outdated == [r \in Readers |-> [readers[r] EXCEPT !.current = FALSE]]

\* The lists go once, after the last game of the last league.
invalidateLists ==
    /\ gameSync.at = "games"
    /\ gameSync.todo = {}
    /\ \/ /\ scores' = NoGame
          /\ readers' = Outdated
          /\ UNCHANGED failures
       \/ Failure /\ UNCHANGED <<scores, readers>>
    /\ gameSync' = NoSync
    /\ UNCHANGED <<tables, listed, lineups, games>>

\* The first error ends the run: the lists stay as they are.
GameSyncFails ==
    /\ gameSync # NoSync
    /\ Failure
    /\ gameSync' = NoSync
    /\ UNCHANGED <<tables, listed, lineups, games, scores, readers>>

-----------------------------------------------------------------------------
(* Readers                                                                 *)

GetGame(r, g) ==
    /\ readers[r] = NotReading
    /\ games[g] = NoGame
    /\ Reads(r, [NotReading EXCEPT !.at = "game", !.game = g])
    /\ UNCHANGED <<tables, listed, lineups, games, scores, gameSync, failures>>

\* The row of the join, then the teams.
LoadGame(r) ==
    /\ readers[r].at = "game"
    /\ Reads(r, IF lineups[readers[r].game] = NoGame THEN NotReading
                ELSE [readers[r] EXCEPT !.at = "teams",
                                        !.status = events[readers[r].game].status])
    /\ UNCHANGED <<tables, listed, lineups, games, scores, gameSync, failures>>

loadTeams(r) ==
    /\ readers[r].at = "teams"
    /\ Reads(r, [readers[r] EXCEPT !.at = "put",
                                   !.lineup = lineups[readers[r].game]])
    /\ UNCHANGED <<tables, listed, lineups, games, scores, gameSync, failures>>

putCachedDetail(r) ==
    /\ readers[r].at = "put"
    /\ \/ /\ games' = [games EXCEPT ![readers[r].game] =
                        [status |-> readers[r].status, lineup |-> readers[r].lineup]]
          /\ UNCHANGED failures
       \/ Failure /\ UNCHANGED games
    /\ Reads(r, NotReading)
    /\ UNCHANGED <<tables, listed, lineups, scores, gameSync>>

\* A list reader takes the version first; a version that is missing or cannot
\* be read is replaced at once.
ListGames(r) ==
    /\ readers[r] = NotReading
    /\ LET reading == [NotReading EXCEPT !.at = "list", !.current = TRUE] IN
       \/ /\ scores = NoGame
          /\ Reads(r, reading)
          /\ UNCHANGED <<scores, failures>>
       \/ /\ Failure
          /\ scores' = NoGame
          /\ readers' = [Outdated EXCEPT ![r] = reading]
    /\ UNCHANGED <<tables, listed, lineups, games, gameSync>>

\* SELECT COUNT(*), ...
CountGames(r) ==
    /\ readers[r].at = "list"
    /\ Reads(r, [readers[r] EXCEPT !.at = "select", !.total = Cardinality(JoinedGames)])
    /\ UNCHANGED <<tables, listed, lineups, games, scores, gameSync, failures>>

\* ... then the rows of the join, without their teams, ...
SelectGames(r) ==
    /\ readers[r].at = "select"
    /\ Reads(r, [readers[r] EXCEPT !.at = "fill",
            !.values = [g \in JoinedGames |-> [status |-> events[g].status,
                                              lineup |-> NoGame]]])
    /\ UNCHANGED <<tables, listed, lineups, games, scores, gameSync, failures>>

Unfilled(values) == {g \in DOMAIN values : values[g].lineup = NoGame}

\* ... then the teams of one game after the other.
FillTeams(r) ==
    /\ readers[r].at = "fill"
    /\ \E g \in Unfilled(readers[r].values) :
        Reads(r, [readers[r] EXCEPT !.values[g].lineup = lineups[g]])
    /\ UNCHANGED <<tables, listed, lineups, games, scores, gameSync, failures>>

\* What was read is cached under the version that was read before it.
putCachedList(r) ==
    /\ readers[r].at = "fill"
    /\ Unfilled(readers[r].values) = {}
    /\ scores' = IF readers[r].current
                 THEN [total |-> readers[r].total, values |-> readers[r].values]
                 ELSE scores
    /\ Reads(r, NotReading)
    /\ UNCHANGED <<tables, listed, lineups, games, gameSync, failures>>

ExpireGame(g) ==
    /\ games[g] # NoGame
    /\ games' = [games EXCEPT ![g] = NoGame]
    /\ UNCHANGED <<tables, listed, lineups, scores, gameSync, readers, failures>>

\* A mutant: a cached list is kept until it is invalidated.
ScoresKept == FALSE /\ UNCHANGED sportsVars

ExpireScores ==
    /\ scores # NoGame
    /\ scores' = NoGame
    /\ UNCHANGED <<tables, listed, lineups, games, gameSync, readers, failures>>

-----------------------------------------------------------------------------
(* The source, and the event service behind this one's back                *)

SourceChanges ==
    /\ \E g \in Games :
        /\ listed[g].status = "active"
        /\ \E status \in {"active", "closed"}, lineup \in Lineups :
            /\ [status |-> status, lineup |-> lineup] # listed[g]
            /\ status = "closed" => lineup = listed[g].lineup
            /\ listed' = [listed EXCEPT ![g] =
                            [status |-> status, lineup |-> lineup]]
    /\ UNCHANGED <<tables, lineups, games, scores, gameSync, readers, failures>>

EventChanges ==
    /\ \E g \in Games :
        \/ listed[g].status = "closed" /\ Exists(g) /\ UpsertSource(g, "closed")
        \/ \E o \in Outcomes : ResolveRow(g, "closed", o, "polymarket")
    /\ UNCHANGED sports

SyncGamesStep == \/ SyncGame \/ UpsertGame \/ deleteCachedDetail
                 \/ invalidateLists

ReaderStep(r) == \/ LoadGame(r) \/ loadTeams(r) \/ putCachedDetail(r)
                 \/ CountGames(r) \/ SelectGames(r) \/ FillTeams(r)
                 \/ putCachedList(r)

SportsNext ==
    \/ FetchGames \/ SyncGamesStep \/ GameSyncFails
    \/ \E r \in Readers :
        \/ \E g \in Games : GetGame(r, g)
        \/ ListGames(r)
        \/ ReaderStep(r)
    \/ \E g \in Games : ExpireGame(g)
    \/ ExpireScores
    \/ SourceChanges
    \/ EventChanges

\* Calls in progress go on, and Redis drops an entry at its time to live.
SportsFairness ==
    /\ WF_sportsVars(SyncGamesStep)
    /\ \A r \in Readers : WF_sportsVars(ReaderStep(r))
    /\ \A g \in Games : WF_sportsVars(ExpireGame(g))
    /\ WF_sportsVars(ExpireScores)

SportsSpec == NoEvents /\ SportsInit /\ [][SportsNext]_sportsVars /\ SportsFairness

-----------------------------------------------------------------------------
\* What the rows of one moment say of a game and of all games.
Joined(g) == [status |-> events[g].status, lineup |-> lineups[g]]
JoinedList == [total |-> Cardinality(JoinedGames),
               values |-> [g \in JoinedGames |-> Joined(g)]]

\* A closed game is not synchronized any more: from the moment its event is
\* resolved nobody deletes the cached game, and a reader may have stored an
\* old or torn one.  Lists are invalidated at the end of a run only, never
\* when the event service changes an event or when a run fails; one that was
\* read over several moments may count, name and show its games as they never
\* were together.  Both die of their age: in the end every reader of games
\* and of lists sees the resolution and the line-up of the rows.
GameReadersCatchUp ==
    (\A g \in Games : listed[g].status = "closed" /\ events[g].status = "resolved")
        ~> [](/\ \A g \in Games : games[g] \in {NoGame, Joined(g)}
             /\ scores \in {NoGame, JoinedList})
=============================================================================
