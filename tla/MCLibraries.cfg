CONSTANTS
  Libraries = {"xmlrpc", "webserver", "mailer", "discovery", "telnetd", "chats", "codecs", "drivers", "wheel", "options", "stream", "dhcp", "protobuf", "tftp", "sockets", "commands", "thttpd", "http", "ntp", "ppp", "ftp", "json", "ftpclient", "web"}
  Base = 2
  StringSize = 6
  XmlCalls <- MCXmlCalls
  HurtCalls <- MCHurtCalls
  XmlFunctions <- MCXmlFunctions
  TextBytes = 20
  MaxXmlCalls = 2
  HttpdSetups <- MCHttpdSetups
  HttpdBuffer = 6
  HttpdNameMax = 5
  HttpdFiles <- MCHttpdFiles
  HttpdCgis <- MCHttpdCgis
  Visits <- MCVisits
  MaxVisits = 2
  MaxVisitors = 1
  Mails <- MCMails
  MaxMails = 2
  DeviceInfos <- MCDeviceInfos
  DescrSize = 3
  Packets <- MCPackets
  Hosts = {"h1", "h2"}
  TelnetConfigs <- MCTelnetConfigs
  Connections <- MCConnections
  ChatScripts <- MCChatScripts
  Chars = {"O", "K", "x"}
  MaxChars = 3
  MaxTimeout = 2
  CodedTexts <- MCCodedTexts
  Urls <- MCUrls
  Addresses <- MCAddresses
  BlockSize = 4
  LowMax = 8
  MaxMessage = 11
  NumMotors = 2
  MotorSpeeds <- MCMotorSpeeds
  MotorPositions <- MCMotorPositions
  MaxMotorRestarts = 1
  Speeds <- MCSpeeds
  MaxRequests = 2
  MaxOps = 2
  MaxData = 2
  BufferMax = 1
  Clients = {"c1"}
  Stranger = "s"
  NumAddresses = 2
  QueueMax = 2
  MaxLost = 1
  MaxRestarts = 1
  MaxForeign = 2
  MaxRecords = 2
  Blocks = 3
  MaxSessions = 2
  FifoSize = 2
  WorkerBuf = 1
  RecvMax = 2
  MaxConns = 2
  MaxBytes = 2
  MaxCommands = 2
  MaxNotices = 1
  NumSlots = 2
  Linger = 1
  IdlePeriod = 1
  IdleLimit = 1
  MaxReads = 1
  IoBuffer = 2
  HeaderSize = 1
  FileSizes = {1}
  MaxWords = 4
  MaxHeaders = 1
  SemValueMax = 3
  MaxEnding = 2
  RetryCount = 2
  PppIds = 2
  PppSetups <- MCPppSetups
  FtpAccounts <- MCFtpAccounts
  FtpEnvHome <- MCFtpEnvHome
  FtpParams <- MCFtpParams
  FtpDepth = 2
  NumItems = 3
  FtpcLacks <- MCFtpcLacks
  FtpcRemote <- MCFtpcRemote
  FtpcLocal <- MCFtpcLocal
  FtpcSizeMax = 1
  JsonNames <- MCJsonNames
  JsonBasics <- MCJsonBasics
  JsonArrays <- MCJsonArrays
  JsonTexts <- MCJsonTexts
  JsonValues <- MCJsonValues
  MaxMishaps = 1
  WebRequests <- MCWebRequests
  WebTrees <- MCWebTrees
SPECIFICATION Spec
INVARIANT WheelsUnderstood
INVARIANT EndsAgree
INVARIANT StreamFaithful
INVARIANT EncodingsKept
INVARIANT TransferIntact
INVARIANT SocketReads
INVARIANT ReportedDone
INVARIANT SlotsAccounted
INVARIANT RequestsServed
INVARIANT SessionSound
INVARIANT DialoguesKept
PROPERTY NoLoop
PROPERTY ClientBound
PROPERTY SlotsReturn
PROPERTY CallsTakeEffect
PROPERTY LinkComesUp
PROPERTY ListsKept
CHECK_DEADLOCK FALSE
