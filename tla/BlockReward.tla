---------------------------- MODULE BlockReward -----------------------------
(***************************************************************************)
(* The block reward pallet (pallets/block-reward): every block issues      *)
(* RewardAmount and splits it between the providers and the validators.    *)
(***************************************************************************)
EXTENDS Integers, Perbill

CONSTANTS
  RewardAmount,         \* the pallet's Config
  GenesisRewardConfig,
  RewardConfigs         \* arguments of set_config

DistributionConfig == [providers_percent : Parts, validators_percent : Parts]

ASSUME BlockRewardAssumption ==
  /\ RewardAmount \in Nat
  /\ GenesisRewardConfig \in DistributionConfig
  /\ RewardConfigs \subseteq DistributionConfig

VARIABLE rewardConfig   \* RewardConfig

(* The percentages add up to one whole; checked_add fails beyond it.       *)
IsValid(config) == config.providers_percent + config.validators_percent = One

(* Genesis asserts that the configuration is valid.                        *)
BlockRewardInit ==
  /\ IsValid(GenesisRewardConfig)
  /\ rewardConfig = GenesisRewardConfig

SetConfig(config) ==
  /\ IsValid(config)
  /\ rewardConfig' = config

(* distribute_rewards: the providers' part is rounded, the validators get  *)
(* the rest.                                                               *)
ProvidersBalance == PerbillMul(rewardConfig.providers_percent, RewardAmount)

(* Faulty: the validators' part is rounded on its own.                     *)
ValidatorsRounded == PerbillMul(rewardConfig.validators_percent, RewardAmount)

ValidatorsBalance == RewardAmount - ProvidersBalance
=============================================================================
