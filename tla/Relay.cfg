SPECIFICATION FairSpec
CONSTANTS
  Agents = {"a", "b"}
  Messages <- MCMessages
  Sender <- MCSender
  Recipient <- MCRecipient
  Threads = {1, 2}
  Slots = {11, 12}
  Nobody = 0
  MaxMessages = 1
  MaxRegistered = 2
  PollMax = 1
  MaxInbox = 1
  Unsteady = {"b"}
  MaxFaults = 1
CHECK_DEADLOCK FALSE
INVARIANTS SleepersAreWoken OneCopy 
PROPERTIES AcceptedArrives 
