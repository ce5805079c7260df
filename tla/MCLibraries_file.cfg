CONSTANTS
  Libraries = {"thttpd"}
  Base = 2
  StringSize = 6
  XmlCalls <- MCXmlCalls
  HurtCalls <- MCHurtCalls
  XmlFunctions <- MCXmlFunctions
  TextBytes = 20
  MaxXmlCalls = 2
  HttpdSetups <- MCHttpdSetups
  HttpdBuffer = 6
  HttpdNameMax = 5
  HttpdFiles <- MCHttpdFiles
  HttpdCgis <- MCHttpdCgis
  Visits <- MCVisits
  MaxVisits = 2
  MaxVisitors = 1
  Mails <- MCMails
  MaxMails = 2
  DeviceInfos <- MCDeviceInfos
  DescrSize = 3
  Packets <- MCPackets
  Hosts = {"h1", "h2"}
  TelnetConfigs <- MCTelnetConfigs
  Connections <- MCConnections
  ChatScripts <- MCChatScripts
  Chars = {"O", "K", "x"}
  MaxChars = 4
  MaxTimeout = 2
  CodedTexts <- MCCodedTexts
  Urls <- MCUrls
  Addresses <- MCAddresses
  BlockSize = 4
  LowMax = 8
  MaxMessage = 11
  NumMotors = 2
  MotorSpeeds <- MCMotorSpeeds
  MotorPositions <- MCMotorPositions
  MaxMotorRestarts = 1
  Speeds <- MCSpeeds
  MaxRequests = 2
  MaxOps = 2
  MaxData = 2
  BufferMax = 1
  Clients = {"c1", "c2"}
  Stranger = "s"
  NumAddresses = 2
  QueueMax = 2
  MaxLost = 0
  MaxRestarts = 0
  MaxForeign = 0
  MaxRecords = 2
  Blocks = 3
  MaxSessions = 2
  FifoSize = 3
  WorkerBuf = 2
  RecvMax = 2
  MaxConns = 2
  MaxBytes = 3
  MaxCommands = 3
  MaxNotices = 1
  NumSlots = 2
  Linger = 1
  IdlePeriod = 2
  IdleLimit = 2
  MaxReads = 1
  IoBuffer = 2
  HeaderSize = 1
  FileSizes = {4}
  MaxWords = 4
  MaxHeaders = 1
  SemValueMax = 3
  MaxEnding = 2
  RetryCount = 2
  PppIds = 2
  PppSetups <- MCPppSetups
  FtpAccounts <- MCFtpAccounts
  FtpEnvHome <- MCFtpEnvHome
  FtpParams <- MCFtpParams
  FtpDepth = 2
  NumItems = 3
  FtpcLacks <- MCFtpcLacks
  FtpcRemote <- MCFtpcRemote
  FtpcLocal <- MCFtpcLocal
  FtpcSizeMax = 1
  JsonNames <- MCJsonNames
  JsonBasics <- MCJsonBasics
  JsonArrays <- MCJsonArrays
  JsonTexts <- MCJsonTexts
  JsonValues <- MCJsonValues
  MaxMishaps = 1
  WebRequests <- MCWebRequests
  WebTrees <- MCWebTrees
SPECIFICATION Spec
INVARIANT FileComplete
CHECK_DEADLOCK FALSE
