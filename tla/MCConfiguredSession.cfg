CONSTANTS
  c1 = c1
  MaxInputs = 3
  MaxUpdates = 2
  Connection <- OneConnection
  Policies <- AnyPolicy
  Messages <- Configuring
  Opening <- StartFirst
  Faults <- NoEngineFails
  ToolLists <- Lookup
  TargetLists <- TwoProfiles
  Registered <- Installed
  EnvEngines <- OnlyOpencode
  EnvTargets <- NoList
  Created <- CreatedSettings
  Updates <- ClientUpdates
  Selections <- SomeEngines
  Metadata <- NoLanguage
SPECIFICATION ConfiguredFairSpec
INVARIANTS NoInputIsLost SettingsAreFollowed ToolsAreHonest
PROPERTIES SpokenOrder QueuedIsServed
