SPECIFICATION FairSpec
CONSTANTS
  s1 = s1
  s2 = s2
  s3 = s3
  s4 = s4
  s5 = s5
  s6 = s6
  jt001 = jt001
  none77 = none77
  home = home
  office = office
  t1 = t1
  t2 = t2
  t3 = t3
  t4 = t4
  Sessions = {s1, s2, s3, s4, s5, s6}
  Casts <- Together
  Moving = {s1}
  Repertoire <- Repertoires
  TicketIds = {t1, t2, t3, t4}
  SeededStatus <- OneOpen
  Accounts = {jt001, none77}
  Given <- GivenAccounts
  PhoneOf <- OnePhone
  Lines = {home, office}
  CallerNumber <- CallerNumbers
  NoNumber = NoNumber
  Statuses = {"open", "closed"}
  FailureLimit = 2
  FailedBefore <- OneLeft
  NoSession = NoSession
  NoTicket = NoTicket
  NoAccount = NoAccount
  NoStatus = NoStatus
  Env = {"failure"}
INVARIANTS
  TypeOK
  OfferedToolsRun
  
  AnnouncedTicketExists
  OneTicketPerRequest
  ReadBackHolds
  DoneTicketsAreDated
  OwnNumberIsFound
PROPERTIES
  ToolCallsEnd
